---------------------------- MODULE Spec2Model ----------------------------
(***************************************************************************)
(* Model of the DecentraChat transport and delivery subsystem.             *)
(*                                                                         *)
(*  - the signaling / relay server (presence registry, username registry,  *)
(*    offline buffer, conversation history), one action per socket event;  *)
(*  - the client's local message store (saveMessage, saveMessagesBulk),    *)
(*    its mutexes with every callback split into its read and its write,   *)
(*    the outbox, clearHistory and clearAllData;                           *)
(*  - the client's send path (useChat.sendMessage, sendEncryptedMessage)   *)
(*    and flushPendingMessages, with the connection, the data channel and  *)
(*    the recipient's registration changing in between.                    *)
(*                                                                         *)
(* JavaScript strings are sequences of one-character strings, so that      *)
(* toLowerCase, trim, replace and the username regular expression are      *)
(* computed character by character.  undefined, null and the empty string  *)
(* are all the empty sequence: the handlers only test them for truthiness. *)
(* Date.now() values written by the relay (lastSeen, timestamp) are not    *)
(* part of the relay state here: no relay handler reads them back.         *)
(***************************************************************************)
EXTENDS Integers, Sequences, FiniteSets, TLC

VARIABLES
    sockets,          \* socket id -> [state, address]   (socket.address)
    users,            \* address -> [socketId, publicKey, online, username]
    usernames,        \* lower-cased username -> address
    offlineMessages,  \* address -> sequence of buffered messages
    messageHistory,   \* conversation id -> sequence of messages
    emitted,          \* what the last handler emitted, in order
    store,            \* device -> storage key -> conversation log
    clock,            \* Date.now() as the devices read it
    received,         \* device -> the messages handed to its store so far
    chain,            \* mutex key -> the callbacks chained on its queue, in
                      \* order, each with how far it has run and what it read
    cleared,          \* the last clearHistory / clearAllData call, until
                      \* another call is issued
    connected,        \* socket.connected of the client
    p2pOpen,          \* the peer's data channel is connected
    wire,             \* sendMessage events emitted, not yet at the relay
    accepted,         \* ids of the sendMessage events the relay has received
    p2pSent,          \* ids of the messages sent over the data channel
    send,             \* the useChat.sendMessage call in progress, and its outcome
    flush,            \* the flushPendingMessages call in progress, and its counts
    reflush,          \* a second flushPendingMessages call that overlaps the first
    flushed,          \* ids reported through onFlushed
    sentMessageIds,   \* messageService: ids tracked for deduplication
    processedIds,     \* subscribeToMessages: ids already handled
    decrypting,       \* handleMessage calls awaiting decryptReceivedMessage
    onMessageCalls,   \* the messages handed to the onMessage callback, in order
    saving,           \* useChat callbacks awaiting saveMessage
    activeChat,       \* activeChatRef.current: the open conversation
    chatMessages,     \* useChat: messages, the visible message list
    receipts,         \* messageReceipt events emitted by the client
    inbox,            \* transport -> the messages it carries to this client
                      \* and how many of them it has delivered
    myKeys,           \* the keys getStoredKeys returned to useChat
    startup,          \* the effects that run when the application starts, the
                      \* message callback of the socket and what is on its way
    peers,            \* webrtcService: address -> peer instance
    connectionStates, \* webrtcService: address -> connection state
    instances,        \* the SimplePeer instances created so far
    connects,         \* connectToPeer calls awaiting checkOnline
    channel,          \* payloads written to data channels
    returned          \* what the last webrtcService call returned

relayVars == <<sockets, users, usernames, offlineMessages, messageHistory,
               emitted>>
storeVars == <<store, clock, received>>
mutexVars == <<chain, cleared>>
messagingVars == <<connected, p2pOpen, wire, accepted, p2pSent, send, flush, reflush, flushed,
                   sentMessageIds>>
inboundVars == <<processedIds, decrypting, onMessageCalls, saving, activeChat,
                 chatMessages, receipts, inbox, myKeys, startup>>
peerVars == <<peers, connectionStates, instances, connects, channel, returned>>
clientVars == <<mutexVars, messagingVars, inboundVars, peerVars>>
vars == <<sockets, users, usernames, offlineMessages, messageHistory,
          emitted, store, clock, received, clientVars>>

----------------------------------------------------------------------------
(* Bounds of the model *)

NumSockets == 2      \* connections the relay accepts in one run
MaxPending == 2      \* messages buffered per offline address
MaxClock == 2        \* largest Date.now() value
MaxBulk == 2         \* messages in one saveMessagesBulk call
MaxCalls == 3        \* store calls issued through the mutexes in one run
MaxSends == 2        \* messages the user sends in one run
MaxInbound == 2      \* messages on their way to the client on one transport
MaxPeers == 2        \* SimplePeer objects created or about to be

----------------------------------------------------------------------------
(* Strings *)

Upper == <<"A","B","C","D","E","F","G","H","I","J","K","L","M",
           "N","O","P","Q","R","S","T","U","V","W","X","Y","Z">>
Lower == <<"a","b","c","d","e","f","g","h","i","j","k","l","m",
           "n","o","p","q","r","s","t","u","v","w","x","y","z">>
Digits == {"0","1","2","3","4","5","6","7","8","9"}
Whitespace == {" ", "\t", "\n"}

\* Every character the model uses, in UTF-16 code unit order.
CodeOrder == <<"\t", "\n", " ", "-", "0","1","2","3","4","5","6","7","8","9", "@">>
                 \o Upper \o <<"_">> \o Lower
Chars == {CodeOrder[i] : i \in 1..Len(CodeOrder)}

LowerChar ==
    [c \in Chars |-> IF \E i \in 1..26 : Upper[i] = c
                     THEN Lower[CHOOSE i \in 1..26 : Upper[i] = c]
                     ELSE c]

ToLowerCase(s) == [i \in 1..Len(s) |-> LowerChar[s[i]]]

RECURSIVE TrimStart(_)
TrimStart(s) ==
    IF s # <<>> /\ Head(s) \in Whitespace THEN TrimStart(Tail(s)) ELSE s

RECURSIVE TrimEnd(_)
TrimEnd(s) ==
    IF s # <<>> /\ s[Len(s)] \in Whitespace
    THEN TrimEnd(SubSeq(s, 1, Len(s) - 1))
    ELSE s

Trim(s) == TrimEnd(TrimStart(s))

\* String.prototype.replace(c, ''): removes the first occurrence of c.
RemoveFirst(s, c) ==
    IF \E i \in 1..Len(s) : s[i] = c
    THEN LET k == CHOOSE i \in 1..Len(s) :
                      s[i] = c /\ \A j \in 1..(i - 1) : s[j] # c
         IN  SubSeq(s, 1, k - 1) \o SubSeq(s, k + 1, Len(s))
    ELSE s

\* A character's rank in code unit order.
CodeUnit == [c \in Chars |-> CHOOSE i \in 1..Len(CodeOrder) : CodeOrder[i] = c]

\* The decimal digit of n's last place.
DigitChar(n) == CodeOrder[5 + (n % 10)]

\* Order of two strings by code units (Array.prototype.sort without comparator).
RECURSIVE StrLess(_, _)
StrLess(s, t) ==
    IF t = <<>> THEN FALSE
    ELSE IF s = <<>> THEN TRUE
    ELSE IF Head(s) = Head(t) THEN StrLess(Tail(s), Tail(t))
    ELSE CodeUnit[Head(s)] < CodeUnit[Head(t)]

----------------------------------------------------------------------------
(* Maps (JavaScript Map) as functions *)

Has(m, k) == k \in DOMAIN m
MapSet(m, k, v) == [x \in DOMAIN m \cup {k} |-> IF x = k THEN v ELSE m[x]]
MapDelete(m, k) == [x \in DOMAIN m \ {k} |-> m[x]]
EmptyMap == [x \in {} |-> x]

----------------------------------------------------------------------------
(* Inputs of the relay *)

NoString == <<>>

addrA == <<"a">>
AddressInputs == {<<"A">>, <<"b">>}
PublicKeys == {"pk"}

Bob == <<"B","o","b">>
bobSpaced == <<" ","B","o","b"," ">>
amy == <<"a","m","y">>
tooShort == <<"a","l">>
badChars == <<"a","-","b">>
tooLong == [i \in 1..21 |-> "x"]

SocketIds == 1..NumSockets

----------------------------------------------------------------------------
(* Relay: helpers *)

\* getConversationId: the two lower-cased addresses, sorted, joined by "_".
getConversationId(addr1, addr2) ==
    LET x == ToLowerCase(addr1)
        y == ToLowerCase(addr2)
    IN  IF StrLess(y, x) THEN y \o <<"_">> \o x ELSE x \o <<"_">> \o y

\* storeMessage: push unless the id is already there, then drop the oldest
\* entry when the history is longer than the cap.
MAX_HISTORY == 100

\* Variant: the entry that came last is the one dropped at the cap.
storeMessageKeepsOldest(history, msg) ==
    LET convId == getConversationId(msg.from, msg.to)
        h == IF Has(history, convId) THEN history[convId] ELSE <<>>
    IN  IF \E i \in 1..Len(h) : h[i].id = msg.id
        THEN history
        ELSE LET pushed == Append(h, msg)
             IN  MapSet(history, convId,
                        IF Len(pushed) > MAX_HISTORY
                        THEN SubSeq(pushed, 1, MAX_HISTORY) ELSE pushed)

storeMessage(history, msg) ==
    LET convId == getConversationId(msg.from, msg.to)
        h == IF Has(history, convId) THEN history[convId] ELSE <<>>
    IN  IF \E i \in 1..Len(h) : h[i].id = msg.id
        THEN history
        ELSE LET pushed == Append(h, msg)
             IN  MapSet(history, convId,
                        IF Len(pushed) > MAX_HISTORY THEN Tail(pushed) ELSE pushed)

\* Targets of an emit: socket.emit / io.to(socketId).emit reach one socket,
\* socket.broadcast.emit reaches every connected socket but the sender, a
\* callback answers the calling socket.
ToSocket(s) == [kind |-> "socket", socket |-> s]
ToOthers(s) == [kind |-> "broadcast", socket |-> s]
Ack(s) == [kind |-> "callback", socket |-> s]
Emit(target, event, payload) == [to |-> target, event |-> event, payload |-> payload]

Open(s) == sockets[s].state = "open"
Registered(s) == sockets[s].address # NoString

----------------------------------------------------------------------------
(* Relay: one action per socket event *)

\* io.on('connection'): socket ids are handed out in increasing order.
Connect(s) ==
    /\ sockets[s].state = "fresh"
    /\ \A t \in SocketIds : t < s => sockets[t].state # "fresh"
    /\ sockets' = [sockets EXCEPT ![s] = [state |-> "open", address |-> NoString]]
    /\ emitted' = <<>>
    /\ UNCHANGED <<users, usernames, offlineMessages, messageHistory>>

\* Variant: register always takes the username argument.
RegisterUsernameArgument(existingUser, username) == username

\* The username register keeps: the stored one if truthy, else the argument.
RegisterUsername(existingUser, username) ==
    IF existingUser.username # NoString THEN existingUser.username ELSE username

NoUser == [socketId |-> 0, publicKey |-> "", online |-> FALSE, username |-> NoString]

\* Variant: the buffered messages are emitted newest first.
RegisterEmitsNewestFirst(s, normalizedAddress, publicKey, existingUsername, pending) ==
    [i \in 1..Len(pending) |->
        Emit(ToSocket(s), "message", pending[Len(pending) + 1 - i])]
    \o << Emit(ToSocket(s), "registered",
               [address |-> normalizedAddress, publicKey |-> publicKey,
                username |-> existingUsername]),
          Emit(ToOthers(s), "userStatus",
               [address |-> normalizedAddress, online |-> TRUE]) >>

\* What register emits: the buffered messages in order, the registered
\* acknowledgement, then the online broadcast.
RegisterEmits(s, normalizedAddress, publicKey, existingUsername, pending) ==
    [i \in 1..Len(pending) |-> Emit(ToSocket(s), "message", pending[i])]
    \o << Emit(ToSocket(s), "registered",
               [address |-> normalizedAddress, publicKey |-> publicKey,
                username |-> existingUsername]),
          Emit(ToOthers(s), "userStatus",
               [address |-> normalizedAddress, online |-> TRUE]) >>

\* Variant: the buffer is kept after its messages are emitted.
deliveredBufferKept(normalizedAddress, pending) == offlineMessages

\* if (pending.length > 0) { ...; offlineMessages.delete(normalizedAddress) }
deliveredBuffer(normalizedAddress, pending) ==
    IF Len(pending) > 0
    THEN MapDelete(offlineMessages, normalizedAddress)
    ELSE offlineMessages

Register(s, address, publicKey, username) ==
    LET normalizedAddress == ToLowerCase(address)
        existingUser == IF Has(users, normalizedAddress)
                        THEN users[normalizedAddress] ELSE NoUser
        existingUsername == RegisterUsername(existingUser, username)
        pending == IF Has(offlineMessages, normalizedAddress)
                   THEN offlineMessages[normalizedAddress] ELSE <<>>
    IN  /\ Open(s)
        /\ users' = MapSet(users, normalizedAddress,
                           [socketId |-> s, publicKey |-> publicKey,
                            online |-> TRUE, username |-> existingUsername])
        /\ usernames' = IF existingUsername # NoString
                        THEN MapSet(usernames, ToLowerCase(existingUsername),
                                    normalizedAddress)
                        ELSE usernames
        /\ sockets' = [sockets EXCEPT ![s].address = normalizedAddress]
        /\ offlineMessages' = deliveredBuffer(normalizedAddress, pending)
        /\ emitted' = RegisterEmits(s, normalizedAddress, publicKey,
                                    existingUsername, pending)
        /\ UNCHANGED messageHistory

\* setUsername: the validation of the normalized name; "" when it passes.
MIN_USERNAME == 3
MAX_USERNAME == 20
UsernameChars == {Lower[i] : i \in 1..26} \cup Digits \cup {"_"}

\* Variant: ownership of the name is not checked.
UsernameNeverTaken(normalizedUsername, address) == FALSE

UsernameTaken(normalizedUsername, address) ==
    /\ Has(usernames, normalizedUsername)
    /\ usernames[normalizedUsername] # address

SetUsernameError(s, normalizedUsername) ==
    IF ~Registered(s) THEN "Not registered"
    ELSE IF Len(normalizedUsername) < MIN_USERNAME \/ Len(normalizedUsername) > MAX_USERNAME
    THEN "Username must be 3-20 characters"
    ELSE IF \E i \in 1..Len(normalizedUsername) : normalizedUsername[i] \notin UsernameChars
    THEN "Username can only contain letters, numbers, and underscores"
    ELSE IF UsernameTaken(normalizedUsername, sockets[s].address)
    THEN "Username already taken"
    ELSE ""

\* The key setUsername deletes for the user's previous name.
OldUsernameKey(user) == ToLowerCase(user.username)

SetUsername(s, username) ==
    LET normalizedUsername == Trim(ToLowerCase(username))
        error == SetUsernameError(s, normalizedUsername)
        address == sockets[s].address
        user == users[address]
        released == IF user.username # NoString
                    THEN MapDelete(usernames, OldUsernameKey(user))
                    ELSE usernames
    IN  /\ Open(s)
        /\ IF error # ""
           THEN /\ emitted' = << Emit(Ack(s), "setUsername",
                                      [success |-> FALSE, error |-> error]) >>
                /\ UNCHANGED <<users, usernames>>
           ELSE /\ usernames' = MapSet(released, normalizedUsername, address)
                /\ users' = [users EXCEPT ![address].username = username]
                /\ emitted' = << Emit(Ack(s), "setUsername",
                                      [success |-> TRUE, username |-> username]) >>
        /\ UNCHANGED <<sockets, offlineMessages, messageHistory>>

\* lookupByUsername: a pure read of the two registries; what the callback is
\* given (null is [found |-> FALSE]).
lookupByUsername(registry, presence, username) ==
    LET normalizedUsername == RemoveFirst(Trim(ToLowerCase(username)), "@")
    IN  IF Has(registry, normalizedUsername)
        THEN LET address == registry[normalizedUsername]
                 user == IF Has(presence, address) THEN presence[address] ELSE NoUser
             IN  [found |-> TRUE, address |-> address, username |-> user.username,
                  publicKey |-> user.publicKey, online |-> user.online]
        ELSE [found |-> FALSE]

\* sendMessage: the relay overwrites to, from and id (the timestamp is not
\* modelled); a missing id is replaced by a generated one.
\* const { to, ...rest } = messageData
RestOf(messageData) == [k \in DOMAIN messageData \ {"to"} |-> messageData[k]]

\* Variant: the properties of the payload are spread after from is set, so
\* a from in the payload wins.
FullMessageSpreadLast(s, messageData, generatedId) ==
    LET rest == RestOf(messageData)
    IN  [k \in DOMAIN rest \cup {"to", "from", "id"} |->
            CASE k = "to" -> ToLowerCase(messageData.to)
              [] k = "id" -> IF "id" \in DOMAIN rest /\ rest.id # NoString
                             THEN rest.id ELSE generatedId
              [] k = "from" -> IF "from" \in DOMAIN rest
                               THEN rest.from ELSE sockets[s].address
              [] OTHER -> rest[k]]

\* { ...rest, to: toAddress, from: socket.address, timestamp, id: rest.id || msg_... }
FullMessage(s, messageData, generatedId) ==
    LET rest == RestOf(messageData)
    IN  [k \in DOMAIN rest \cup {"to", "from", "id"} |->
            CASE k = "to" -> ToLowerCase(messageData.to)
              [] k = "from" -> sockets[s].address
              [] k = "id" -> IF "id" \in DOMAIN rest /\ rest.id # NoString
                             THEN rest.id ELSE generatedId
              [] OTHER -> rest[k]]

\* Variant: a known recipient counts as online.
RecipientKnown(toAddress) == Has(users, toAddress)

RecipientOnline(toAddress) == Has(users, toAddress) /\ users[toAddress].online

\* A generated id (msg_<Date.now()>_<random>) is one the relay has not seen.
Unseen(id) ==
    \A convId \in DOMAIN messageHistory :
        \A i \in 1..Len(messageHistory[convId]) : messageHistory[convId][i].id # id

SendMessage(s, messageData, generatedId) ==
    LET toAddress == ToLowerCase(messageData.to)
        fullMessage == FullMessage(s, messageData, generatedId)
        pending == IF Has(offlineMessages, toAddress)
                   THEN offlineMessages[toAddress] ELSE <<>>
    IN  /\ Open(s)
        /\ Registered(s)  \* storeMessage throws on an undefined sender address
        /\ messageData.id = NoString => Unseen(generatedId)
        /\ RecipientOnline(toAddress) \/ Len(pending) < MaxPending
        /\ messageHistory' = storeMessage(messageHistory, fullMessage)
        /\ IF RecipientOnline(toAddress)
           THEN /\ emitted' = << Emit(ToSocket(users[toAddress].socketId),
                                      "message", fullMessage),
                                 Emit(ToSocket(s), "messageStatus",
                                      [id |-> fullMessage.id, status |-> "delivered"]),
                                 Emit(ToSocket(s), "messageSent", fullMessage) >>
                /\ UNCHANGED offlineMessages
           ELSE /\ offlineMessages' = MapSet(offlineMessages, toAddress,
                                             Append(pending, fullMessage))
                /\ emitted' = << Emit(ToSocket(s), "messageStatus",
                                      [id |-> fullMessage.id, status |-> "stored"]),
                                 Emit(ToSocket(s), "messageSent", fullMessage) >>
        /\ UNCHANGED <<sockets, users, usernames>>

\* msg.status = type: the message object gets the property, or its value
\* changes.
WithStatus(msg, type) ==
    [x \in DOMAIN msg \cup {"status"} |-> IF x = "status" THEN type ELSE msg[x]]

\* The value of msg.status; undefined until a receipt has set it.
StatusOf(msg) == IF "status" \in DOMAIN msg THEN msg.status ELSE ""

\* Variant: a receipt is forwarded only for an id a history holds.
ForwardsReceiptIfKnown(recipient, messageId) ==
    /\ recipient.online
    /\ \E convId \in DOMAIN messageHistory :
           \E i \in 1..Len(messageHistory[convId]) :
               messageHistory[convId][i].id = messageId

\* recipient && recipient.online
ForwardsReceipt(recipient, messageId) == recipient.online

\* messageReceipt: the first conversation that holds the id (the Map is
\* scanned in insertion order, which the model does not keep: any
\* conversation holding the id may be the first) has the status of its
\* message set; a buffered entry equal to that message is the same object
\* and changes with it. The receipt is forwarded to the address in `to`
\* when that address is online.
MessageReceipt(s, messageId, to, type) ==
    LET toAddress == ToLowerCase(to)
        recipient == IF Has(users, toAddress) THEN users[toAddress] ELSE NoUser
        holding == {convId \in DOMAIN messageHistory :
                       \E i \in 1..Len(messageHistory[convId]) :
                           messageHistory[convId][i].id = messageId}
    IN  /\ Open(s)
        /\ IF holding = {}
           THEN UNCHANGED <<messageHistory, offlineMessages>>
           ELSE \E convId \in holding :
                    LET messages == messageHistory[convId]
                        k == CHOOSE i \in 1..Len(messages) :
                                 /\ messages[i].id = messageId
                                 /\ \A j \in 1..(i - 1) : messages[j].id # messageId
                        msg == messages[k]
                    IN  /\ messageHistory' =
                               [messageHistory EXCEPT ![convId][k] = WithStatus(msg, type)]
                        /\ offlineMessages' =
                               [a \in DOMAIN offlineMessages |->
                                   [i \in 1..Len(offlineMessages[a]) |->
                                       IF offlineMessages[a][i] = msg
                                       THEN WithStatus(msg, type)
                                       ELSE offlineMessages[a][i]]]
        /\ emitted' = IF ForwardsReceipt(recipient, messageId)
                      THEN << Emit(ToSocket(recipient.socketId), "messageReceipt",
                                   [messageId |-> messageId, type |-> type,
                                    from |-> sockets[s].address]) >>
                      ELSE <<>>
        /\ UNCHANGED <<sockets, users, usernames>>

\* Variant: any socket of the address counts as the active one.
IsActiveSocketAny(user, s) == user.socketId \in SocketIds

\* disconnect: only the socket still registered for the address sets it offline.
IsActiveSocket(user, s) == user.socketId = s

Disconnect(s) ==
    LET address == sockets[s].address
    IN  /\ Open(s)
        /\ sockets' = [sockets EXCEPT ![s].state = "closed"]
        /\ IF address # NoString /\ Has(users, address)
                /\ IsActiveSocket(users[address], s)
           THEN /\ users' = [users EXCEPT ![address].online = FALSE]
                /\ emitted' = << Emit(ToOthers(s), "userStatus",
                                      [address |-> address, online |-> FALSE]) >>
           ELSE /\ emitted' = <<>>
                /\ UNCHANGED users
        /\ UNCHANGED <<usernames, offlineMessages, messageHistory>>


----------------------------------------------------------------------------
(* Local store (storageService): conversation logs *)

MAX_HISTORY_PER_CHAT == 1000

Devices == {1, 2}

\* Messages handed to the store.  savedAt = 0 is a message without savedAt
\* (0 and undefined are both falsy); ids are lower-case words, which
\* localeCompare orders as StrLess does.
Message(id, timestamp, savedAt, status) ==
    [id |-> id, timestamp |-> timestamp, savedAt |-> savedAt, status |-> status]

msgA == Message(<<"a">>, 2, 0, "sent")
msgADelivered == Message(<<"a">>, 2, 0, "delivered")
msgB == Message(<<"b">>, 1, 0, "sent")
msgC == Message(<<"c">>, 3, 2, "sent")
msgD == Message(<<"d">>, 1, 2, "sent")

StoreMessages == {msgA, msgADelivered, msgB, msgC}
ReplicaMessages == {msgA, msgB, msgC, msgD}

ChatIds == {<<"P">>}

StorageKey(chatId) == <<"c","h","a","t","_">> \o ToLowerCase(chatId)

\* Variant: no id tie-break.
messageSortTimeOnly(a, b) ==
    (IF a.savedAt # 0 THEN a.savedAt ELSE a.timestamp)
        - (IF b.savedAt # 0 THEN b.savedAt ELSE b.timestamp)

\* messageSort(a, b): negative, zero or positive.
SortTime(m) == IF m.savedAt # 0 THEN m.savedAt ELSE m.timestamp

messageSort(a, b) ==
    LET timeDiff == SortTime(a) - SortTime(b)
    IN  IF timeDiff # 0 THEN timeDiff
        ELSE IF StrLess(a.id, b.id) THEN -1
        ELSE IF StrLess(b.id, a.id) THEN 1
        ELSE 0

\* Array.prototype.sort(messageSort): a stable sort.  A list already in
\* order is returned as it is; otherwise the last element is put into the
\* sorted rest, after every element that does not sort after it.
IsSorted(list) ==
    \A i \in 1..(Len(list) - 1) : messageSort(list[i], list[i + 1]) <= 0

InsertSorted(sorted, m) ==
    LET after == Cardinality({i \in 1..Len(sorted) : messageSort(m, sorted[i]) < 0})
        k == Len(sorted) - after
    IN  SubSeq(sorted, 1, k) \o <<m>> \o SubSeq(sorted, k + 1, Len(sorted))

RECURSIVE Sort(_)
Sort(list) ==
    IF IsSorted(list) THEN list
    ELSE InsertSorted(Sort(SubSeq(list, 1, Len(list) - 1)), list[Len(list)])

\* Variant: slice(0, MAX_HISTORY_PER_CHAT).
KeepFirst(list) ==
    IF Len(list) > MAX_HISTORY_PER_CHAT
    THEN SubSeq(list, 1, MAX_HISTORY_PER_CHAT)
    ELSE list

\* slice(-MAX_HISTORY_PER_CHAT)
KeepLast(list) ==
    IF Len(list) > MAX_HISTORY_PER_CHAT
    THEN SubSeq(list, Len(list) - MAX_HISTORY_PER_CHAT + 1, Len(list))
    ELSE list

HasId(history, id) == \E i \in 1..Len(history) : history[i].id = id

getItem(d, key) == IF Has(store[d], key) THEN store[d][key] ELSE <<>>

Stamp(m, now) == [m EXCEPT !.savedAt = IF m.savedAt # 0 THEN m.savedAt ELSE now]

\* Variant: no duplicate check.
saveMessageAlways(history, message, now) ==
    KeepLast(Sort(Append(history, Stamp(message, now))))

\* Variant: a duplicate overwrites the stored status.
saveMessageStatusWins(history, message, now) ==
    IF HasId(history, message.id)
    THEN [i \in 1..Len(history) |->
             IF history[i].id = message.id
             THEN [history[i] EXCEPT !.status = message.status]
             ELSE history[i]]
    ELSE KeepLast(Sort(Append(history, Stamp(message, now))))

\* saveMessage: the log after the call (the mutex runs the body in one piece).
saveMessageResult(history, message, now) ==
    IF HasId(history, message.id)
    THEN history
    ELSE KeepLast(Sort(Append(history, Stamp(message, now))))

saveMessage(d, chatId, message) ==
    LET key == StorageKey(chatId)
        history == getItem(d, key)
    IN  /\ received' = [received EXCEPT ![d] = @ \cup {message}]
        /\ IF chatId = NoString \/ saveMessageResult(history, message, clock) = history
           THEN UNCHANGED store
           ELSE store' = [store EXCEPT ![d] =
                             MapSet(@, key, saveMessageResult(history, message, clock))]
        /\ UNCHANGED clock

\* saveMessagesBulk: the messages whose id the log does not hold yet.
ToAdd(history, messages) ==
    SelectSeq(messages, LAMBDA m : ~HasId(history, m.id))

saveMessagesBulkResult(history, messages, now) ==
    LET toAdd == ToAdd(history, messages)
        stamped == [i \in 1..Len(toAdd) |-> Stamp(toAdd[i], now + (i - 1))]
    IN  IF Len(toAdd) = 0 THEN history
        ELSE KeepLast(Sort(history \o stamped))

saveMessagesBulk(d, chatId, messages) ==
    LET key == StorageKey(chatId)
        history == getItem(d, key)
    IN  /\ received' = [received EXCEPT ![d] =
                           @ \cup {messages[i] : i \in 1..Len(messages)}]
        /\ IF chatId = NoString \/ Len(messages) = 0
              \/ saveMessagesBulkResult(history, messages, clock) = history
           THEN UNCHANGED store
           ELSE store' = [store EXCEPT ![d] =
                             MapSet(@, key, saveMessagesBulkResult(history, messages, clock))]
        /\ UNCHANGED clock

\* Time passes between calls.
Tick ==
    /\ clock < MaxClock
    /\ clock' = clock + 1
    /\ UNCHANGED <<store, received>>

BulkInputs(messages) == UNION {[1..n -> messages] : n \in 1..MaxBulk}

\* Bulk inputs that name each message once.
DistinctBulkInputs(messages) ==
    {b \in BulkInputs(messages) : \A i, j \in 1..Len(b) : i # j => b[i] # b[j]}

----------------------------------------------------------------------------
(* Local store (storageService): the mutexes, the outbox, clearing *)

OUTBOX_KEY == <<"p","e","n","d","i","n","g","_","o","u","t","b","o","x">>
CONTACTS_KEY ==
    <<"v","i","s","i","b","l","e","_","c","o","n","t","a","c","t","s">>

\* The keys that have a mutex: getMutex(`chat_...`) and outboxMutex.
MutexKeys == {StorageKey(c) : c \in ChatIds} \cup {OUTBOX_KEY}

\* savePendingMessage: the outbox after the call.
savePendingResult(outbox, message, now) ==
    IF HasId(outbox, message.id) THEN outbox
    ELSE Append(outbox, [message EXCEPT !.queuedAt = now])

\* Variant: the filter keeps the entry it was to remove.
removePendingKeeps(outbox, messageId) ==
    SelectSeq(outbox, LAMBDA m : m.id = messageId \/ m.id # messageId)

\* removePendingMessage: the outbox after the call.
removePendingResult(outbox, messageId) ==
    SelectSeq(outbox, LAMBDA m : m.id # messageId)

\* A callback handed to Mutex.lock.  phase: "queued" until the callbacks
\* chained before it have settled and its getItem has resolved, then "read"
\* (value is what getItem returned), then "done" (ranAt is the Date.now() it
\* worked with).
Callback(op, messages, id) ==
    [op |-> op, messages |-> messages, id |-> id,
     phase |-> "queued", value |-> <<>>, ranAt |-> 0]

\* What the callback computes from the value it read.
CallbackResult(cb, value, now) ==
    CASE cb.op = "saveMessage" -> saveMessageResult(value, cb.messages[1], now)
      [] cb.op = "saveMessagesBulk" -> saveMessagesBulkResult(value, cb.messages, now)
      [] cb.op = "savePendingMessage" -> savePendingResult(value, cb.messages[1], now)
      [] OTHER -> removePendingResult(value, cb.id)

\* The callbacks that return before setItem: a duplicate, nothing to add.
CallbackWrites(cb, value, now) ==
    cb.op = "removePendingMessage" \/ CallbackResult(cb, value, now) # value

\* Variant: lock runs the callback at once instead of chaining it.
MayStartUnchained(key, i) == chain[key][i].phase = "queued"

\* Mutex.lock: this.queue.then(...) starts a callback once every callback
\* chained before it has settled.
MayStart(key, i) ==
    /\ chain[key][i].phase = "queued"
    /\ \A j \in 1..(i - 1) : chain[key][j].phase = "done"

NoClear == [kind |-> "none", issued |-> <<>>, stored |-> {}]

Calls == Len(chain[StorageKey(<<"P">>)]) + Len(chain[OUTBOX_KEY])

lock(key, cb) ==
    /\ Calls < MaxCalls
    /\ chain' = [chain EXCEPT ![key] = Append(@, cb)]
    /\ cleared' = NoClear
    /\ UNCHANGED <<store, clock, received>>

\* The calls as their callers issue them: each returns the promise of lock.
saveMessageCall(chatId, message) ==
    /\ chatId # NoString
    /\ lock(StorageKey(chatId), Callback("saveMessage", <<message>>, NoString))

saveMessagesBulkCall(chatId, messages) ==
    /\ chatId # NoString /\ Len(messages) # 0
    /\ lock(StorageKey(chatId), Callback("saveMessagesBulk", messages, NoString))

savePendingMessage(message) ==
    /\ message.id # NoString
    /\ lock(OUTBOX_KEY, Callback("savePendingMessage", <<message>>, NoString))

removePendingMessage(messageId) ==
    lock(OUTBOX_KEY, Callback("removePendingMessage", <<>>, messageId))

\* await messageStore.getItem(key) resolves for a callback that may start.
getItemResolves(key, i) ==
    /\ MayStart(key, i)
    /\ chain' = [chain EXCEPT ![key][i] =
                    [@ EXCEPT !.phase = "read", !.value = getItem(1, key)]]
    /\ UNCHANGED <<store, clock, received, cleared>>

\* The rest of the callback: compute, setItem unless it returned early.
setItemRuns(key, i) ==
    LET cb == chain[key][i]
    IN  /\ cb.phase = "read"
        /\ chain' = [chain EXCEPT ![key][i] =
                        [@ EXCEPT !.phase = "done", !.value = <<>>, !.ranAt = clock]]
        /\ IF CallbackWrites(cb, cb.value, clock)
           THEN store' = [store EXCEPT ![1] =
                             MapSet(@, key, CallbackResult(cb, cb.value, clock))]
           ELSE UNCHANGED store
        /\ UNCHANGED <<clock, received, cleared>>

\* The callbacks chained so far and which of them have settled.
Issued == [key \in MutexKeys |-> [i \in 1..Len(chain[key]) |-> chain[key][i].phase]]

\* clearHistory: removeItem, without the mutex.
clearHistory(chatId) ==
    /\ chatId # NoString
    /\ store' = [store EXCEPT ![1] = MapDelete(@, StorageKey(chatId))]
    /\ cleared' = [kind |-> "clearHistory", issued |-> Issued,
                   stored |-> {m.id : m \in
                       {getItem(1, StorageKey(chatId))[i] :
                            i \in 1..Len(getItem(1, StorageKey(chatId)))}}]
    /\ UNCHANGED <<chain, clock, received>>

\* clearAllData: messageStore.clear(), without the mutexes.
clearAllData ==
    /\ store' = [store EXCEPT ![1] = EmptyMap]
    /\ cleared' = [kind |-> "clearAllData", issued |-> Issued, stored |-> {}]
    /\ UNCHANGED <<chain, clock, received>>

\* saveContacts: one setItem of the minimized list.
saveContacts(contacts) ==
    /\ store' = [store EXCEPT ![1] = MapSet(@, CONTACTS_KEY, contacts)]
    /\ cleared' = NoClear
    /\ UNCHANGED <<chain, clock, received>>

TickClient == Tick /\ UNCHANGED mutexVars

MutexIdle ==
    /\ chain = [key \in MutexKeys |-> <<>>]
    /\ cleared = NoClear

----------------------------------------------------------------------------
(* Client (messageService, socketService, useChat): sending and the outbox *)

myAddress == <<"a">>

\* encryptMessage(plainText, recipientPubKey, secretKey): the ciphertext
\* names what was encrypted and for which key.
NoCipher == <<>>
encryptMessage(plainText, recipientPubKey) == <<plainText, recipientPubKey>>

\* Outbox entries as sendEncryptedMessage builds them: queued before
\* encryption (content, no ciphertext, transport queued), or queued already
\* encrypted (no transport field).  "" stands for a field that is not set.
OutboxEntry(id, to, content, encrypted, transport) ==
    [id |-> id, from |-> myAddress, to |-> to, content |-> content,
     encrypted |-> encrypted, status |-> "pending", transport |-> transport,
     queuedAt |-> 0]

\* The message sendEncryptedMessage returns and useChat saves.
SentMessage(id, to, content, encrypted, status, transport) ==
    [id |-> id, from |-> myAddress, to |-> to, content |-> content,
     encrypted |-> encrypted, timestamp |-> clock, savedAt |-> 0,
     status |-> status, transport |-> transport]

NoMessage ==
    [SentMessage(NoString, NoString, "", NoCipher, "", "") EXCEPT !.timestamp = 0]

\* msg_${Date.now()}_${random}: a fresh id for every send.
ClientMessageId(n) == <<"m", "s", "g", "_", DigitChar(n)>>

WireIds == {wire[i].id : i \in 1..Len(wire)}
Outbox == getItem(1, OUTBOX_KEY)
SetOutbox(outbox) == store' = [store EXCEPT ![1] = MapSet(@, OUTBOX_KEY, outbox)]

\* socketService.getPublicKey: null when the socket is not connected, else
\* what the relay's getPublicKey handler answers from its presence registry.
getPublicKey(asked, address) ==
    IF asked /\ Has(users, ToLowerCase(address))
    THEN users[ToLowerCase(address)].publicKey
    ELSE ""

\* Variant: the data channel is never tried.
sendToPeerNever(peerAddress) == FALSE

\* webrtcService.sendToPeer: true when the peer's channel took the data.
sendToPeer(peerAddress) == p2pOpen

\* socketService.sendMessage: socket.emit('sendMessage', {to, ...messageData}).
sendMessageEmit(to, id, encrypted) ==
    wire' = Append(wire, [to |-> to, id |-> id, encrypted |-> encrypted])

\* useChat.sendMessage (direct chat) up to the await of getPublicKey: the
\* request is emitted only on a connected socket.
sendMessageCall(to, content) ==
    /\ send.pc = "idle"
    /\ send.count < MaxSends
    /\ send' = [send EXCEPT !.pc = "getPublicKey", !.to = to, !.content = content,
                            !.asked = connected, !.result = NoMessage, !.error = ""]
    /\ UNCHANGED <<store, clock, received, mutexVars, sentMessageIds, connected, p2pOpen, wire,
                   accepted, p2pSent, flush, reflush, flushed>>

\* Variant: the entry queued for an unknown key carries no transport.
QueuedPlainUntagged(id, to, content) == OutboxEntry(id, to, content, NoCipher, "")

\* The outbox entry for a recipient whose key is unknown.
QueuedPlain(id, to, content) == OutboxEntry(id, to, content, NoCipher, "queued")

\* The outbox entry built when relay and data channel are both unavailable.
QueuedEncrypted(id, to, content, encrypted) ==
    OutboxEntry(id, to, content, encrypted, "")

\* sendEncryptedMessage after getPublicKey has resolved.
sendEncryptedMessage ==
    LET recipientPubKey == getPublicKey(send.asked, send.to)
        messageId == ClientMessageId(send.count + 1)
        encrypted == encryptMessage(send.content, recipientPubKey)
        p2pSentNow == sendToPeer(send.to)
    IN  /\ send.pc = "getPublicKey"
        /\ IF recipientPubKey = ""
           THEN \* queue the plaintext, throw the soft error; useChat rethrows
                /\ SetOutbox(savePendingResult(Outbox,
                                 QueuedPlain(messageId, send.to, send.content), clock))
                /\ send' = [send EXCEPT !.pc = "idle", !.count = @ + 1, !.error = "info"]
                /\ UNCHANGED <<wire, p2pSent, sentMessageIds>>
           ELSE IF p2pSentNow
           THEN /\ sentMessageIds' = sentMessageIds \cup {messageId}
                /\ p2pSent' = p2pSent \cup {messageId}
                /\ send' = [send EXCEPT !.pc = "saveMessage", !.count = @ + 1,
                                !.result = SentMessage(messageId, send.to, send.content,
                                                       encrypted, "sent", "p2p")]
                /\ UNCHANGED <<store, wire>>
           ELSE IF connected
           THEN /\ sentMessageIds' = sentMessageIds \cup {messageId}
                /\ sendMessageEmit(send.to, messageId, encrypted)
                /\ send' = [send EXCEPT !.pc = "saveMessage", !.count = @ + 1,
                                !.result = SentMessage(messageId, send.to, send.content,
                                                       encrypted, "sent", "relay")]
                /\ UNCHANGED <<store, p2pSent>>
           ELSE /\ sentMessageIds' = sentMessageIds \cup {messageId}
                /\ SetOutbox(savePendingResult(Outbox,
                                 QueuedEncrypted(messageId, send.to, send.content,
                                                 encrypted), clock))
                /\ send' = [send EXCEPT !.pc = "saveMessage", !.count = @ + 1,
                                !.result = SentMessage(messageId, send.to, send.content,
                                                       encrypted, "pending", "queued")]
                /\ UNCHANGED <<wire, p2pSent>>
        /\ UNCHANGED <<clock, received, mutexVars, connected, p2pOpen, accepted,
                       flush, reflush, flushed>>

\* useChat.sendMessage after sendEncryptedMessage has returned:
\* saveMessage(activeChat.address, sentMessage).
sendMessagePersists ==
    LET key == StorageKey(send.to)
    IN  /\ send.pc = "saveMessage"
        /\ store' = [store EXCEPT ![1] =
                        MapSet(@, key, saveMessageResult(getItem(1, key), send.result, clock))]
        /\ send' = [send EXCEPT !.pc = "idle"]
        /\ UNCHANGED <<clock, received, mutexVars, sentMessageIds, connected, p2pOpen, wire,
                       accepted, p2pSent, flush, reflush, flushed>>

\* flushPendingMessages up to the loop: the outbox as getPendingMessages
\* returns it; an empty outbox returns at once.
\* No call in progress.
NoFlush ==
    [pc |-> "idle", pending |-> <<>>, i |-> 0, total |-> 0,
     sent |-> 0, failed |-> 0, reports |-> <<>>]

flushPendingCall ==
    [pc |-> IF Outbox = <<>> THEN "idle" ELSE "loop",
     pending |-> Outbox,
     i |-> IF Outbox = <<>> THEN 0 ELSE 1,
     total |-> Len(Outbox),
     sent |-> 0, failed |-> 0, reports |-> <<>>]

flushPendingMessages ==
    /\ flush.pc = "idle"
    /\ flush' = flushPendingCall
    /\ UNCHANGED <<store, clock, received, mutexVars, sentMessageIds, connected, p2pOpen, wire,
                   accepted, p2pSent, send, reflush, flushed>>

\* Variant: an entry is retained only while the relay is not connected.
RetainedOffline(msg) == ~connected

\* The entries the loop leaves in the outbox: no connection, or no
\* ciphertext yet and still no key for the recipient.
Retained(msg) ==
    \/ ~connected
    \/ /\ msg.encrypted = NoCipher /\ msg.content # ""
       /\ getPublicKey(connected, msg.to) = ""

\* Variant: an entry that is kept is not counted.
flushFailedUncounted(f) == f

\* failed++; continue.
flushFailed(f) == [f EXCEPT !.failed = @ + 1]

\* sent++; onFlushed({ id, status: 'sent' }).
flushSent(f, id) ==
    [f EXCEPT !.sent = @ + 1,
              !.reports = Append(@, [id |-> id, status |-> "sent"])]

\* One iteration of the loop of the flushPendingMessages call f; after is
\* the call once the iteration is over.
flushIteration(f, after) ==
    LET msg == f.pending[f.i]
        encrypted == IF msg.encrypted = NoCipher /\ msg.content # ""
                     THEN encryptMessage(msg.content, getPublicKey(connected, msg.to))
                     ELSE msg.encrypted
        next == IF f.i = Len(f.pending)
                THEN [f EXCEPT !.pc = "idle", !.pending = <<>>, !.i = 0]
                ELSE [f EXCEPT !.i = @ + 1]
    IN  /\ f.pc = "loop"
        /\ IF Retained(msg)
           THEN /\ after = flushFailed(next)
                /\ UNCHANGED <<store, wire, flushed>>
           ELSE /\ sendMessageEmit(msg.to, msg.id, encrypted)
                /\ SetOutbox(removePendingResult(Outbox, msg.id))
                /\ after = flushSent(next, msg.id)
                /\ flushed' = flushed \cup {msg.id}
        /\ UNCHANGED <<clock, received, mutexVars, sentMessageIds, connected, p2pOpen, accepted,
                       p2pSent, send>>

flushEntry == flushIteration(flush, flush') /\ UNCHANGED reflush

\* An iteration of the call that started while another was in its loop.
flushEntryOverlapping == flushIteration(reflush, reflush') /\ UNCHANGED flush

\* The socket connects.
ConnectionUp ==
    /\ ~connected
    /\ connected' = TRUE
    /\ UNCHANGED <<store, clock, received, mutexVars, sentMessageIds, p2pOpen, wire, accepted,
                   p2pSent, send, flush, reflush, flushed>>

\* The socket connects again and the handler useChat has registered with
\* onReconnect runs: it flushes the outbox.
onReconnect ==
    /\ ~connected
    /\ connected' = TRUE
    /\ flush.pc = "idle"
    /\ flush' = flushPendingCall
    /\ UNCHANGED <<store, clock, received, mutexVars, sentMessageIds, p2pOpen, wire,
                   accepted, p2pSent, send, reflush, flushed>>

\* The socket connects again while the flush of an earlier reconnection is
\* still in its loop: the handler calls flushPendingMessages once more, and
\* the new call reads the outbox as it is now.
onReconnectOverlapping ==
    /\ ~connected
    /\ connected' = TRUE
    /\ flush.pc = "loop"
    /\ reflush.pc = "idle"
    /\ reflush' = flushPendingCall
    /\ UNCHANGED <<store, clock, received, mutexVars, sentMessageIds, p2pOpen, wire,
                   accepted, p2pSent, send, flush, flushed>>

\* The socket disconnects; what was emitted and has not reached the relay
\* arrives later or never: emit carries no acknowledgement.
ConnectionDown ==
    /\ connected
    /\ connected' = FALSE
    /\ wire' \in {wire, <<>>}
    /\ UNCHANGED <<store, clock, received, mutexVars, sentMessageIds, p2pOpen, accepted, p2pSent,
                   send, flush, reflush, flushed>>

\* The relay's sendMessage handler receives an event.
RelayReceives ==
    /\ wire # <<>>
    /\ accepted' = accepted \cup {Head(wire).id}
    /\ wire' = Tail(wire)
    /\ UNCHANGED <<store, clock, received, mutexVars, sentMessageIds, connected, p2pOpen, p2pSent,
                   send, flush, reflush, flushed>>

\* The data channel to the peer opens or closes.
PeerChannel ==
    /\ p2pOpen' = ~p2pOpen
    /\ UNCHANGED <<store, clock, received, mutexVars, sentMessageIds, connected, wire, accepted,
                   p2pSent, send, flush, reflush, flushed>>

MessagingIdle ==
    /\ connected = FALSE
    /\ p2pOpen = FALSE
    /\ wire = <<>>
    /\ accepted = {}
    /\ p2pSent = {}
    /\ send = [pc |-> "idle", to |-> NoString, content |-> "", asked |-> FALSE,
               count |-> 0, result |-> NoMessage, error |-> ""]
    /\ flush = [pc |-> "idle", pending |-> <<>>, i |-> 0, total |-> 0,
                sent |-> 0, failed |-> 0, reports |-> <<>>]
    /\ reflush = NoFlush
    /\ flushed = {}
    /\ sentMessageIds = {}

----------------------------------------------------------------------------
(* Client (messageService.subscribeToMessages, useChat): inbound messages *)

\* The keys as getOrCreateKeys stores them, and as storeKeysFromSignature
\* stores them, with the wallet address.
KeysOf(address) == [address |-> address]
StoredKeys == {KeysOf(NoString), KeysOf(myAddress)}

\* crypto.decryptMessage: null when nacl.box.open does not open the box
\* with the counterparty's key (and when decoding throws); it never throws.
Null == "null"
decryptMessage(encryptedMessage, senderPublicKey) ==
    IF encryptedMessage # NoCipher /\ encryptedMessage[2] = senderPublicKey
    THEN encryptedMessage[1]
    ELSE Null

\* A message as a transport hands it to handleMessage.
InboundMessage(id, from, to, groupId, encrypted, senderPublicKey, status) ==
    [id |-> id, from |-> from, to |-> to, groupId |-> groupId,
     encrypted |-> encrypted, senderPublicKey |-> senderPublicKey,
     status |-> status, content |-> "", timestamp |-> 1, savedAt |-> 0]

\* { ...encryptedMessage, content, decryptionFailed }
Decrypted(m, content, decryptionFailed) ==
    [id |-> m.id, from |-> m.from, to |-> m.to, groupId |-> m.groupId,
     encrypted |-> m.encrypted, senderPublicKey |-> m.senderPublicKey,
     status |-> m.status, content |-> content, timestamp |-> m.timestamp,
     savedAt |-> m.savedAt, decryptionFailed |-> decryptionFailed]

KeyNotFound == "[Unable to decrypt: key not found]"
DecryptionFailed == "[Decryption Failed]"

\* decryptReceivedMessage(encryptedMessage, cachedKeys, myAddress); the
\* address is that argument, or else the one stored with the keys. The catch branch
\* that answers DecryptionFailed is never entered, decryptMessage does not
\* throw.
decryptReceivedMessage(m, keys, myAddressArg) ==
    LET walletAddress == IF myAddressArg # NoString THEN myAddressArg ELSE keys.address
        iAmSender == /\ walletAddress # NoString
                     /\ ToLowerCase(m.from) = ToLowerCase(walletAddress)
        otherPartyPublicKey == IF iAmSender THEN getPublicKey(connected, m.to)
                               ELSE m.senderPublicKey
    IN  IF m.encrypted = NoCipher /\ m.status # ""
        THEN Decrypted(m, m.content, FALSE)
        ELSE IF otherPartyPublicKey = ""
        THEN Decrypted(m, KeyNotFound, TRUE)
        ELSE Decrypted(m, decryptMessage(m.encrypted, otherPartyPublicKey), FALSE)

Transports == {"relay", "p2p"}

\* Variant: no id counts as handled.
AlreadyProcessedNever(id) == FALSE

\* processedIds.has(msg.id)
AlreadyProcessed(id) == id \in processedIds

\* handleMessage, for the next message a transport delivers, up to the
\* await of decryptReceivedMessage.
handleMessage(via) ==
    LET msg == inbox[via].stream[inbox[via].read + 1]
    IN  /\ inbox[via].read < Len(inbox[via].stream)
        /\ inbox' = [inbox EXCEPT ![via].read = @ + 1]
        /\ IF msg.id \in sentMessageIds \/ AlreadyProcessed(msg.id)
           THEN UNCHANGED <<processedIds, decrypting>>
           ELSE /\ processedIds' = processedIds \cup {msg.id}
                /\ decrypting' = Append(decrypting, msg)
        /\ UNCHANGED <<store, onMessageCalls, saving, activeChat, chatMessages,
                       receipts, myKeys, startup>>

Without(seq, i) == SubSeq(seq, 1, i - 1) \o SubSeq(seq, i + 1, Len(seq))

\* handleMessage after the await: onMessage(decrypted); the useChat callback
\* runs up to its await of saveMessage.
handleMessageResumes(i) ==
    LET decrypted == decryptReceivedMessage(decrypting[i], myKeys, NoString)
    IN  /\ i \in 1..Len(decrypting)
        /\ decrypting' = Without(decrypting, i)
        /\ onMessageCalls' = Append(onMessageCalls, decrypted)
        /\ saving' = Append(saving, decrypted)
        /\ UNCHANGED <<store, processedIds, activeChat, chatMessages, receipts,
                       inbox, myKeys, startup>>

NoChat == [address |-> NoString, isGroup |-> FALSE]

\* socketService.sendReceipt: nothing without a connected socket.
sendReceipt(log, messageId, to, type) ==
    IF connected
    THEN Append(log, [messageId |-> messageId, to |-> to, type |-> type])
    ELSE log

\* Variant: every message is receipted, group messages too.
ReceiptedAlways(msg) == TRUE

\* The messages the callback sends receipts for: direct messages of others.
Receipted(msg) ==
    /\ msg.groupId = NoString
    /\ msg.from # NoString
    /\ ToLowerCase(msg.from) # ToLowerCase(myAddress)

\* sendDeliveryReceipt, and sendReadReceipt when the sender's chat is open.
callbackReceipts(msg) ==
    IF Receipted(msg)
    THEN LET delivered == sendReceipt(receipts, msg.id, msg.from, "delivered")
         IN  IF ToLowerCase(activeChat.address) = ToLowerCase(msg.from)
             THEN sendReceipt(delivered, msg.id, msg.from, "read")
             ELSE delivered
    ELSE receipts

\* isRelevant, for an open chat.
isRelevant(msg) ==
    LET activeAddress == ToLowerCase(activeChat.address)
    IN  IF activeChat.isGroup
        THEN msg.groupId = activeAddress
        ELSE /\ msg.groupId = NoString
             /\ \/ ToLowerCase(msg.from) = activeAddress
                \/ ToLowerCase(msg.to) = activeAddress

\* The updater the callback hands to setMessages.
setMessages(prev, msg) ==
    IF \E k \in 1..Len(prev) : prev[k].id = msg.id
    THEN [k \in 1..Len(prev) |-> IF prev[k].id = msg.id THEN msg ELSE prev[k]]
    ELSE IF activeChat.address = NoString THEN prev
    ELSE IF isRelevant(msg) THEN Append(prev, msg)
    ELSE prev

\* msg.groupId || msg.from
contactId(msg) == IF msg.groupId # NoString THEN msg.groupId ELSE msg.from

\* The useChat callback after its await of saveMessage: the message is in
\* the store; receipts, then the visible list.
callbackResumes(i) ==
    LET msg == saving[i]
        key == StorageKey(contactId(msg))
    IN  /\ i \in 1..Len(saving)
        /\ saving' = Without(saving, i)
        /\ store' = [store EXCEPT ![1] =
                        MapSet(@, key, saveMessageResult(getItem(1, key), msg, clock))]
        /\ receipts' = callbackReceipts(msg)
        /\ chatMessages' = setMessages(chatMessages, msg)
        /\ UNCHANGED <<processedIds, decrypting, onMessageCalls, activeChat, inbox,
                       myKeys, startup>>

\* openChat / openGroup: another conversation becomes the open one.
openChat(address, isGroup) ==
    /\ ToLowerCase(activeChat.address) # ToLowerCase(address)
    /\ activeChat' = [address |-> address, isGroup |-> isGroup]
    /\ chatMessages' = <<>>
    /\ UNCHANGED <<store, processedIds, decrypting, onMessageCalls, saving,
                   receipts, inbox, myKeys, startup>>

closeChat ==
    /\ activeChat # NoChat
    /\ activeChat' = NoChat
    /\ chatMessages' = <<>>
    /\ UNCHANGED <<store, processedIds, decrypting, onMessageCalls, saving,
                   receipts, inbox, myKeys, startup>>

\* The effects have run, the message callback is installed and nothing is
\* on its way.
Started ==
    [wallet |-> "done", app |-> "done", chat |-> "done", messageCallback |-> TRUE,
     requests |-> 0, arriving |-> <<>>, dropped |-> <<>>]

InboundIdle ==
    /\ processedIds = {}
    /\ decrypting = <<>>
    /\ onMessageCalls = <<>>
    /\ saving = <<>>
    /\ activeChat = NoChat
    /\ chatMessages = <<>>
    /\ receipts = <<>>
    /\ inbox = [via \in Transports |-> [stream |-> <<>>, read |-> 0]]
    /\ myKeys = KeysOf(NoString)
    /\ startup = Started

----------------------------------------------------------------------------
(* Client (webrtcService): peer connections *)

\* What the last call into the service returned.
Returned(op, address, value) == [op |-> op, address |-> address, value |-> value]
NoReturn == Returned("", NoString, "")

\* socketService.checkOnline: false without a connected socket, else the
\* relay's answer.
checkOnline(address) ==
    IF ~connected THEN FALSE
    ELSE /\ Has(users, ToLowerCase(address))
         /\ users[ToLowerCase(address)].online

\* createPeer (SimplePeer is loaded): the state is 'connecting', a new
\* SimplePeer object with its handlers, stored under the address.
createPeer(peerAddress) ==
    /\ Len(instances) < MaxPeers
    /\ connectionStates' = MapSet(connectionStates, peerAddress, "connecting")
    /\ instances' = Append(instances, [address |-> peerAddress, connected |-> FALSE,
                                       destroyed |-> FALSE])
    /\ peers' = MapSet(peers, peerAddress, Len(instances) + 1)

\* handleIncomingSignal: a peer is created when the address has none; the
\* signal is applied to the peer.
handleIncomingSignal(fromAddress) ==
    /\ IF Has(peers, fromAddress)
       THEN UNCHANGED <<peers, connectionStates, instances>>
       ELSE /\ Len(instances) + Len(connects) < MaxPeers
            /\ createPeer(fromAddress)
    /\ UNCHANGED <<connects, channel, returned>>

\* connectToPeer up to its await of checkOnline; an existing peer that is
\* not destroyed is returned at once.
connectToPeerCall(peerAddress) ==
    /\ IF Has(peers, peerAddress) /\ ~instances[peers[peerAddress]].destroyed
       THEN /\ returned' = Returned("connectToPeer", peerAddress, "peer")
            /\ UNCHANGED connects
       ELSE /\ Len(instances) + Len(connects) < MaxPeers
            /\ connects' = Append(connects, peerAddress)
            /\ UNCHANGED returned
    /\ UNCHANGED <<peers, connectionStates, instances, channel>>

\* connectToPeer after the await: null for a peer that is not online, else
\* createPeer(peerAddress, true).
connectToPeerResumes(i) ==
    /\ i \in 1..Len(connects)
    /\ connects' = Without(connects, i)
    /\ IF checkOnline(connects[i])
       THEN /\ createPeer(connects[i])
            /\ returned' = Returned("connectToPeer", connects[i], "peer")
       ELSE /\ returned' = Returned("connectToPeer", connects[i], "null")
            /\ UNCHANGED <<peers, connectionStates, instances>>
    /\ UNCHANGED channel

\* peer.on('connect') of the i-th SimplePeer object.
peerConnects(i) ==
    /\ i \in 1..Len(instances)
    /\ ~instances[i].connected /\ ~instances[i].destroyed
    /\ instances' = [instances EXCEPT ![i].connected = TRUE]
    /\ connectionStates' = MapSet(connectionStates, instances[i].address, "connected")
    /\ UNCHANGED <<peers, connects, channel, returned>>

\* The i-th SimplePeer object is destroyed (an error or a close of the
\* transport): peer.on('error') and peer.on('close').
peerCloses(i) ==
    /\ i \in 1..Len(instances)
    /\ ~instances[i].destroyed
    /\ instances' = [instances EXCEPT ![i].connected = FALSE, ![i].destroyed = TRUE]
    /\ connectionStates' = MapSet(connectionStates, instances[i].address, "disconnected")
    /\ peers' = MapDelete(peers, instances[i].address)
    /\ UNCHANGED <<connects, channel, returned>>

\* Variant: any peer stored under the address is written to.
UsablePeerAny(peerAddress) == Has(peers, peerAddress)

\* peer && peer.connected && !peer.destroyed
UsablePeer(peerAddress) ==
    /\ Has(peers, peerAddress)
    /\ instances[peers[peerAddress]].connected
    /\ ~instances[peers[peerAddress]].destroyed

\* webrtcService.sendToPeer(peerAddress, data); peer.send may throw.
webrtcSendToPeer(peerAddress, data, throws) ==
    /\ IF UsablePeer(peerAddress) /\ ~throws
       THEN /\ channel' = channel \cup {[peer |-> peers[peerAddress], data |-> data]}
            /\ returned' = Returned("sendToPeer", peerAddress, "true")
       ELSE /\ UNCHANGED channel
            /\ returned' = Returned("sendToPeer", peerAddress, "false")
    /\ UNCHANGED <<peers, connectionStates, instances, connects>>

PeersIdle ==
    /\ peers = EmptyMap
    /\ connectionStates = EmptyMap
    /\ instances = <<>>
    /\ connects = <<>>
    /\ channel = {}
    /\ returned = NoReturn

----------------------------------------------------------------------------
(* Relay: specifications *)

id1 == <<"m","1">>
MessageIds == {id1}
GeneratedIds == {<<"g","1">>}
Ciphertexts == {"c1"}
MessageInputs ==
    [to : {<<"B">>}, id : MessageIds \cup {NoString}, encrypted : Ciphertexts]

RegisterNames == {NoString, Bob}
SetUsernameInputs == {Bob, bobSpaced, amy, tooShort, badChars, tooLong}

StoreIdle ==
    /\ store = [d \in Devices |-> EmptyMap]
    /\ clock = 1
    /\ received = [d \in Devices |-> {}]

Init ==
    /\ sockets = [s \in SocketIds |-> [state |-> "fresh", address |-> NoString]]
    /\ users = EmptyMap
    /\ usernames = EmptyMap
    /\ offlineMessages = EmptyMap
    /\ messageHistory = EmptyMap
    /\ emitted = <<>>
    /\ StoreIdle
    /\ MutexIdle
    /\ MessagingIdle
    /\ InboundIdle
    /\ PeersIdle

\* Presence and store-and-forward: clients register without a username.
NextRelay ==
    \/ \E s \in SocketIds : Connect(s) /\ UNCHANGED <<storeVars, clientVars>>
    \/ \E s \in SocketIds, address \in AddressInputs, publicKey \in PublicKeys :
           Register(s, address, publicKey, NoString) /\ UNCHANGED <<storeVars, clientVars>>
    \/ \E s \in SocketIds, messageData \in MessageInputs, g \in GeneratedIds :
           SendMessage(s, messageData, g) /\ UNCHANGED <<storeVars, clientVars>>
    \/ \E s \in SocketIds : Disconnect(s) /\ UNCHANGED <<storeVars, clientVars>>

SpecRelay == Init /\ [][NextRelay]_vars

\* Payloads that carry a from of the client's choosing: the sender's own
\* address, the recipient's, and one no socket registered.
FromInputs ==
    [to : {<<"B">>}, id : MessageIds \cup {NoString}, encrypted : Ciphertexts,
     from : {<<"a">>, <<"b">>, <<"x">>}]
SenderInputs == MessageInputs \cup FromInputs

NextSender ==
    \/ \E s \in SocketIds, address \in AddressInputs, publicKey \in PublicKeys :
           Register(s, address, publicKey, NoString) /\ UNCHANGED <<storeVars, clientVars>>
    \/ \E s \in SocketIds, messageData \in SenderInputs, g \in GeneratedIds :
           SendMessage(s, messageData, g) /\ UNCHANGED <<storeVars, clientVars>>
    \/ \E s \in SocketIds : Disconnect(s) /\ UNCHANGED <<storeVars, clientVars>>


\* Receipts, for the id the clients send and for one no message has.
ReceiptIds == MessageIds \cup {<<"n","o">>}
ReceiptTypes == {"delivered", "read"}

\* a and b are registered and online.
InitReceipts ==
    /\ sockets = [s \in SocketIds |->
                     IF s = 1 THEN [state |-> "open", address |-> <<"a">>]
                     ELSE IF s = 2 THEN [state |-> "open", address |-> <<"b">>]
                     ELSE [state |-> "fresh", address |-> NoString]]
    /\ users = [a \in {<<"a">>, <<"b">>} |->
                   [socketId |-> IF a = <<"a">> THEN 1 ELSE 2, publicKey |-> "pk",
                    online |-> TRUE, username |-> NoString]]
    /\ usernames = EmptyMap
    /\ offlineMessages = EmptyMap
    /\ messageHistory = EmptyMap
    /\ emitted = <<>>
    /\ StoreIdle
    /\ MutexIdle
    /\ MessagingIdle
    /\ InboundIdle
    /\ PeersIdle

\* Messages to b and receipts for them, while the clients go offline.
NextReceipts ==
    \/ \E s \in SocketIds, messageData \in MessageInputs, g \in GeneratedIds :
           SendMessage(s, messageData, g) /\ UNCHANGED <<storeVars, clientVars>>
    \/ \E s \in SocketIds, messageId \in ReceiptIds, to \in AddressInputs,
          type \in ReceiptTypes :
           MessageReceipt(s, messageId, to, type) /\ UNCHANGED <<storeVars, clientVars>>
    \/ \E s \in SocketIds : Disconnect(s) /\ UNCHANGED <<storeVars, clientVars>>

SpecReceipts == InitReceipts /\ [][NextReceipts]_vars

\* a and b are online; either sends payloads with and without a from.
SpecSender == InitReceipts /\ [][NextSender]_vars

\* Presence and the username directory.
NextDirectory ==
    \/ \E s \in SocketIds : Connect(s) /\ UNCHANGED <<storeVars, clientVars>>
    \/ \E s \in SocketIds, address \in AddressInputs, publicKey \in PublicKeys,
          username \in RegisterNames :
           Register(s, address, publicKey, username) /\ UNCHANGED <<storeVars, clientVars>>
    \/ \E s \in SocketIds, username \in SetUsernameInputs :
           SetUsername(s, username) /\ UNCHANGED <<storeVars, clientVars>>
    \/ \E s \in SocketIds : Disconnect(s) /\ UNCHANGED <<storeVars, clientVars>>

SpecDirectory == Init /\ [][NextDirectory]_vars

----------------------------------------------------------------------------
(* Local store: specification *)

\* One device; the same id arrives more than once, with either status.
NextStore ==
    \/ \E chatId \in ChatIds, message \in StoreMessages :
           saveMessage(1, chatId, message) /\ UNCHANGED <<relayVars, clientVars>>
    \/ \E chatId \in ChatIds, messages \in BulkInputs(StoreMessages) :
           saveMessagesBulk(1, chatId, messages) /\ UNCHANGED <<relayVars, clientVars>>
    \/ Tick /\ UNCHANGED <<relayVars, clientVars>>

SpecStore == Init /\ [][NextStore]_vars

\* Two devices are handed the same messages, each in its own order.
NextReplicas ==
    \/ \E d \in Devices, chatId \in ChatIds, message \in ReplicaMessages :
           saveMessage(d, chatId, message) /\ UNCHANGED <<relayVars, clientVars>>
    \/ \E d \in Devices, chatId \in ChatIds, messages \in DistinctBulkInputs(ReplicaMessages) :
           saveMessagesBulk(d, chatId, messages) /\ UNCHANGED <<relayVars, clientVars>>
    \/ Tick /\ UNCHANGED <<relayVars, clientVars>>

SpecReplicas == Init /\ [][NextReplicas]_vars

\* A conversation one short of the retention cap: the log that
\* MAX_HISTORY_PER_CHAT - 1 earlier saveMessage calls have left, each entry
\* stamped on arrival (savedAt 12, 14, 16, ...).
FillerId(i) ==
    << "f", DigitChar(i \div 1000), DigitChar(i \div 100), DigitChar(i \div 10),
       DigitChar(i) >>
Filler(i) == Message(FillerId(i), i, 10 + 2 * i, "sent")
FillerLog == [i \in 1..(MAX_HISTORY_PER_CHAT - 1) |-> Filler(i)]

\* Messages arriving at the full conversation: without savedAt (stamped with
\* the clock, whatever their timestamp), older than every entry, tied on the
\* time with the oldest entry on either side of its id, in the middle of the
\* log, and newer than every entry.
lateA == Message(<<"l","a">>, 9000, 0, "sent")
lateB == Message(<<"l","b">>, 1, 0, "sent")
oldC == Message(<<"o","c">>, 3, 5, "sent")
tieBelow == Message(<<"a","t">>, 3, 12, "sent")
tieAbove == Message(<<"z","t">>, 3, 12, "sent")
midE == Message(<<"m","e">>, 3, 1001, "sent")
newF == Message(<<"n","f">>, 3, 5000, "sent")
RetentionMessages == {lateA, lateB, oldC, tieBelow, tieAbove, midE, newF}
RetentionBulk == {lateB, tieAbove, newF}

InitRetention ==
    /\ sockets = [s \in SocketIds |-> [state |-> "fresh", address |-> NoString]]
    /\ users = EmptyMap
    /\ usernames = EmptyMap
    /\ offlineMessages = EmptyMap
    /\ messageHistory = EmptyMap
    /\ emitted = <<>>
    /\ store = [d \in Devices |->
                   IF d = 1 THEN MapSet(EmptyMap, StorageKey(<<"P">>), FillerLog)
                   ELSE EmptyMap]
    /\ clock = 1
    /\ received = [d \in Devices |->
                      IF d = 1 THEN {FillerLog[i] : i \in 1..Len(FillerLog)} ELSE {}]
    /\ MutexIdle
    /\ MessagingIdle
    /\ InboundIdle
    /\ PeersIdle

NextRetention ==
    \/ \E chatId \in ChatIds, message \in RetentionMessages :
           saveMessage(1, chatId, message) /\ UNCHANGED <<relayVars, clientVars>>
    \/ \E chatId \in ChatIds, messages \in DistinctBulkInputs(RetentionBulk) :
           saveMessagesBulk(1, chatId, messages) /\ UNCHANGED <<relayVars, clientVars>>
    \/ Tick /\ UNCHANGED <<relayVars, clientVars>>

SpecRetention == InitRetention /\ [][NextRetention]_vars

----------------------------------------------------------------------------
(* Relay: a conversation at the cap of its history *)

\* The history that MAX_HISTORY - 1 earlier messages of a to b have left.
HistoryFiller(i) ==
    [id |-> FillerId(i), to |-> <<"b">>, from |-> myAddress, encrypted |-> "c1"]
FillerHistory == [i \in 1..(MAX_HISTORY - 1) |-> HistoryFiller(i)]

\* Messages to b (from a in the conversation at the cap, from b in one that
\* starts empty): with a new id, with the id of the oldest entry, and
\* without an id.
HistoryInputs ==
    [to : {<<"B">>},
     id : {<<"h","1">>, FillerId(1), NoString},
     encrypted : Ciphertexts]

\* a and b are registered and online.
InitHistory ==
    /\ sockets = [s \in SocketIds |->
                     IF s = 1 THEN [state |-> "open", address |-> myAddress]
                     ELSE IF s = 2 THEN [state |-> "open", address |-> <<"b">>]
                     ELSE [state |-> "fresh", address |-> NoString]]
    /\ users = [a \in {myAddress, <<"b">>} |->
                   [socketId |-> IF a = myAddress THEN 1 ELSE 2, publicKey |-> "pk",
                    online |-> TRUE, username |-> NoString]]
    /\ usernames = EmptyMap
    /\ offlineMessages = EmptyMap
    /\ messageHistory = MapSet(EmptyMap, getConversationId(myAddress, <<"b">>),
                               FillerHistory)
    /\ emitted = <<>>
    /\ StoreIdle
    /\ MutexIdle
    /\ MessagingIdle
    /\ InboundIdle
    /\ PeersIdle

NextHistory ==
    \E s \in SocketIds, messageData \in HistoryInputs, g \in GeneratedIds :
        SendMessage(s, messageData, g) /\ UNCHANGED <<storeVars, clientVars>>

SpecHistory == InitHistory /\ [][NextHistory]_vars

----------------------------------------------------------------------------
(* Local store: calls in flight *)

entryX == OutboxEntry(<<"x">>, <<"b">>, "hello", NoCipher, "queued")
entryY == OutboxEntry(<<"y">>, <<"b">>, "hello", encryptMessage("hello", "pk"), "")

MutexMessages == {msgA, msgB}
MutexBulk == {<<msgA, msgC>>}
MutexEntries == {entryX, entryY}

StoreSteps ==
    \/ \E key \in MutexKeys : \E i \in 1..Len(chain[key]) : getItemResolves(key, i)
    \/ \E key \in MutexKeys : \E i \in 1..Len(chain[key]) : setItemRuns(key, i)

\* Calls are issued while earlier ones are still in flight.
NextMutex ==
    \/ \E chatId \in ChatIds, message \in MutexMessages :
           saveMessageCall(chatId, message) /\ UNCHANGED <<relayVars, messagingVars, inboundVars, peerVars>>
    \/ \E chatId \in ChatIds, messages \in MutexBulk :
           saveMessagesBulkCall(chatId, messages) /\ UNCHANGED <<relayVars, messagingVars, inboundVars, peerVars>>
    \/ \E message \in MutexEntries : savePendingMessage(message) /\ UNCHANGED <<relayVars, messagingVars, inboundVars, peerVars>>
    \/ \E message \in MutexEntries :
           removePendingMessage(message.id) /\ UNCHANGED <<relayVars, messagingVars, inboundVars, peerVars>>
    \/ StoreSteps /\ UNCHANGED <<relayVars, messagingVars, inboundVars, peerVars>>
    \/ TickClient /\ UNCHANGED <<relayVars, messagingVars, inboundVars, peerVars>>

SpecMutex == Init /\ [][NextMutex]_vars

\* The sidebar list saveContacts is handed.
ContactLists == { << [address |-> <<"b">>, username |-> Bob] >> }

\* Conversations and the whole store are cleared while calls are in flight.
NextClear ==
    \/ \E chatId \in ChatIds, message \in MutexMessages :
           saveMessageCall(chatId, message) /\ UNCHANGED <<relayVars, messagingVars, inboundVars, peerVars>>
    \/ \E message \in {entryX} : savePendingMessage(message) /\ UNCHANGED <<relayVars, messagingVars, inboundVars, peerVars>>
    \/ \E message \in {entryX} :
           removePendingMessage(message.id) /\ UNCHANGED <<relayVars, messagingVars, inboundVars, peerVars>>
    \/ \E contacts \in ContactLists : saveContacts(contacts) /\ UNCHANGED <<relayVars, messagingVars, inboundVars, peerVars>>
    \/ \E chatId \in ChatIds : clearHistory(chatId) /\ UNCHANGED <<relayVars, messagingVars, inboundVars, peerVars>>
    \/ clearAllData /\ UNCHANGED <<relayVars, messagingVars, inboundVars, peerVars>>
    \/ StoreSteps /\ UNCHANGED <<relayVars, messagingVars, inboundVars, peerVars>>

SpecClear == Init /\ [][NextClear]_vars

----------------------------------------------------------------------------
(* Client: specification *)

Recipients == {<<"b">>, <<"c">>}
PlainTexts == {"hello"}
PeerAddresses == {<<"b">>}

\* The relay has accepted the peer's connection.
InitSend ==
    /\ sockets = [s \in SocketIds |->
                     IF s = 1 THEN [state |-> "open", address |-> NoString]
                     ELSE [state |-> "fresh", address |-> NoString]]
    /\ users = EmptyMap
    /\ usernames = EmptyMap
    /\ offlineMessages = EmptyMap
    /\ messageHistory = EmptyMap
    /\ emitted = <<>>
    /\ StoreIdle
    /\ MutexIdle
    /\ MessagingIdle
    /\ InboundIdle
    /\ PeersIdle

\* The user sends while the connection, the data channel and the peer's
\* registration come and go; the outbox is flushed at any time.
NextSend ==
    \/ \E to \in Recipients, content \in PlainTexts :
           sendMessageCall(to, content) /\ UNCHANGED <<relayVars, inboundVars, peerVars>>
    \/ sendEncryptedMessage /\ UNCHANGED <<relayVars, inboundVars, peerVars>>
    \/ sendMessagePersists /\ UNCHANGED <<relayVars, inboundVars, peerVars>>
    \/ flushPendingMessages /\ UNCHANGED <<relayVars, inboundVars, peerVars>>
    \/ flushEntry /\ UNCHANGED <<relayVars, inboundVars, peerVars>>
    \/ ConnectionUp /\ UNCHANGED <<relayVars, inboundVars, peerVars>>
    \/ ConnectionDown /\ UNCHANGED <<relayVars, inboundVars, peerVars>>
    \/ RelayReceives /\ UNCHANGED <<relayVars, inboundVars, peerVars>>
    \/ PeerChannel /\ UNCHANGED <<relayVars, inboundVars, peerVars>>
    \/ \E address \in PeerAddresses, publicKey \in PublicKeys :
           /\ ~Has(users, address)
           /\ Register(1, address, publicKey, NoString)
           /\ UNCHANGED <<storeVars, clientVars>>

SpecSend == InitSend /\ [][NextSend]_vars

----------------------------------------------------------------------------
(* Client: a flush over a connected relay *)

\* The entries sendEncryptedMessage leaves in the outbox: the plaintext
\* queued for an unknown key, or the ciphertext queued while the relay was
\* away; the i-th message sent carries the i-th id.
DrainEntry(i, to, plain) ==
    [(IF plain
      THEN QueuedPlain(ClientMessageId(i), to, "hello")
      ELSE QueuedEncrypted(ClientMessageId(i), to, "hello",
                           encryptMessage("hello", "pk")))
     EXCEPT !.queuedAt = 1]

DrainChoices == Recipients \X BOOLEAN

DrainOutboxes ==
    UNION { { [i \in 1..n |-> DrainEntry(i, c[i][1], c[i][2])] :
                c \in [1..n -> DrainChoices] } : n \in 0..MaxPending }

\* Both recipients are registered with the relay, the client is connected
\* and its outbox holds what earlier sends have queued.
InitDrain ==
    /\ sockets = [s \in SocketIds |->
                     IF s = 1 THEN [state |-> "open", address |-> <<"b">>]
                     ELSE IF s = 2 THEN [state |-> "open", address |-> <<"c">>]
                     ELSE [state |-> "fresh", address |-> NoString]]
    /\ users = [a \in Recipients |->
                   [socketId |-> IF a = <<"b">> THEN 1 ELSE 2, publicKey |-> "pk",
                    online |-> TRUE, username |-> NoString]]
    /\ usernames = EmptyMap
    /\ offlineMessages = EmptyMap
    /\ messageHistory = EmptyMap
    /\ emitted = <<>>
    /\ clock = 1
    /\ \E outbox \in DrainOutboxes :
           /\ store = [d \in Devices |->
                          IF d = 1 /\ outbox # <<>>
                          THEN MapSet(EmptyMap, OUTBOX_KEY, outbox) ELSE EmptyMap]
           /\ send = [pc |-> "idle", to |-> NoString, content |-> "", asked |-> FALSE,
                      count |-> Len(outbox), result |-> NoMessage, error |-> ""]
    /\ received = [d \in Devices |-> {}]
    /\ MutexIdle
    /\ connected = TRUE
    /\ p2pOpen = FALSE
    /\ wire = <<>>
    /\ accepted = {}
    /\ p2pSent = {}
    /\ flush = [pc |-> "idle", pending |-> <<>>, i |-> 0, total |-> 0,
                sent |-> 0, failed |-> 0, reports |-> <<>>]
    /\ reflush = NoFlush
    /\ flushed = {}
    /\ sentMessageIds = {}
    /\ InboundIdle
    /\ PeersIdle

DrainFrame == <<relayVars, inboundVars, peerVars>>

\* The user goes on sending while the outbox is flushed.
NextDrain ==
    \/ \E to \in Recipients, content \in PlainTexts :
           sendMessageCall(to, content) /\ UNCHANGED DrainFrame
    \/ sendEncryptedMessage /\ UNCHANGED DrainFrame
    \/ sendMessagePersists /\ UNCHANGED DrainFrame
    \/ flushPendingMessages /\ UNCHANGED DrainFrame
    \/ flushEntry /\ UNCHANGED DrainFrame
    \/ RelayReceives /\ UNCHANGED DrainFrame

\* The loop of a flush goes on by itself, and a connected socket delivers
\* what was emitted on it.
SpecDrain ==
    /\ InitDrain
    /\ [][NextDrain]_vars
    /\ WF_vars(flushEntry /\ UNCHANGED DrainFrame)
    /\ WF_vars(RelayReceives /\ UNCHANGED DrainFrame)

----------------------------------------------------------------------------
(* Client: reconnections while the outbox is flushed *)

\* Both recipients are registered with the relay; the socket of the client
\* is down and its outbox holds what earlier sends have queued.
InitReconnect ==
    /\ sockets = [s \in SocketIds |->
                     IF s = 1 THEN [state |-> "open", address |-> <<"b">>]
                     ELSE IF s = 2 THEN [state |-> "open", address |-> <<"c">>]
                     ELSE [state |-> "fresh", address |-> NoString]]
    /\ users = [a \in Recipients |->
                   [socketId |-> IF a = <<"b">> THEN 1 ELSE 2, publicKey |-> "pk",
                    online |-> TRUE, username |-> NoString]]
    /\ usernames = EmptyMap
    /\ offlineMessages = EmptyMap
    /\ messageHistory = EmptyMap
    /\ emitted = <<>>
    /\ clock = 1
    /\ \E outbox \in DrainOutboxes :
           /\ store = [d \in Devices |->
                          IF d = 1 /\ outbox # <<>>
                          THEN MapSet(EmptyMap, OUTBOX_KEY, outbox) ELSE EmptyMap]
           /\ send = [pc |-> "idle", to |-> NoString, content |-> "", asked |-> FALSE,
                      count |-> Len(outbox), result |-> NoMessage, error |-> ""]
    /\ received = [d \in Devices |-> {}]
    /\ MutexIdle
    /\ connected = FALSE
    /\ p2pOpen = FALSE
    /\ wire = <<>>
    /\ accepted = {}
    /\ p2pSent = {}
    /\ flush = NoFlush
    /\ reflush = NoFlush
    /\ flushed = {}
    /\ sentMessageIds = {}
    /\ InboundIdle
    /\ PeersIdle

\* The socket goes down and comes back while the handler of an earlier
\* reconnection may still be flushing.
NextReconnect ==
    \/ onReconnect /\ UNCHANGED DrainFrame
    \/ onReconnectOverlapping /\ UNCHANGED DrainFrame
    \/ flushEntry /\ UNCHANGED DrainFrame
    \/ flushEntryOverlapping /\ UNCHANGED DrainFrame
    \/ ConnectionDown /\ UNCHANGED DrainFrame
    \/ RelayReceives /\ UNCHANGED DrainFrame

SpecReconnect == InitReconnect /\ [][NextReconnect]_vars

----------------------------------------------------------------------------
(* Client: the outbox while the recipient registers *)

\* The client is registered and connected, its reconnect handler is
\* installed; the recipient has a connection to the relay and has not
\* registered yet.
InitDeliver ==
    /\ sockets = [s \in SocketIds |->
                     IF s = 1 THEN [state |-> "open", address |-> NoString]
                     ELSE [state |-> "fresh", address |-> NoString]]
    /\ users = EmptyMap
    /\ usernames = EmptyMap
    /\ offlineMessages = EmptyMap
    /\ messageHistory = EmptyMap
    /\ emitted = <<>>
    /\ StoreIdle
    /\ MutexIdle
    /\ connected = TRUE
    /\ p2pOpen = FALSE
    /\ wire = <<>>
    /\ accepted = {}
    /\ p2pSent = {}
    /\ send = [pc |-> "idle", to |-> NoString, content |-> "", asked |-> FALSE,
               count |-> 0, result |-> NoMessage, error |-> ""]
    /\ flush = [pc |-> "idle", pending |-> <<>>, i |-> 0, total |-> 0,
                sent |-> 0, failed |-> 0, reports |-> <<>>]
    /\ reflush = NoFlush
    /\ flushed = {}
    /\ sentMessageIds = {}
    /\ InboundIdle
    /\ PeersIdle

\* The steps of the client and of the relay that go on without the user.
DeliverSteps ==
    \/ sendEncryptedMessage /\ UNCHANGED DrainFrame
    \/ sendMessagePersists /\ UNCHANGED DrainFrame
    \/ onReconnect /\ UNCHANGED DrainFrame
    \/ flushEntry /\ UNCHANGED DrainFrame
    \/ RelayReceives /\ UNCHANGED DrainFrame

\* flushPendingMessages has one caller, the reconnect handler: the outbox
\* is flushed when the socket has come back and at no other time.
NextDeliver ==
    \/ \E to \in PeerAddresses, content \in PlainTexts :
           sendMessageCall(to, content) /\ UNCHANGED DrainFrame
    \/ DeliverSteps
    \/ ConnectionDown /\ UNCHANGED DrainFrame
    \/ \E address \in PeerAddresses, publicKey \in PublicKeys :
           /\ ~Has(users, address)
           /\ Register(1, address, publicKey, NoString)
           /\ UNCHANGED <<storeVars, clientVars>>

SpecDeliver ==
    /\ InitDeliver
    /\ [][NextDeliver]_vars
    /\ WF_vars(DeliverSteps)

----------------------------------------------------------------------------
(* Client: inbound messages *)

peerB == <<"b">>
groupG == <<"g">>
myPublicKey == "pka"

\* A direct message from b, a group message from b, a direct message from b
\* whose ciphertext was altered on the way, a message that names no sender
\* key, and a copy of a message this client's user sent to b elsewhere.
inDirect ==
    InboundMessage(<<"i", "1">>, peerB, myAddress, NoString,
                   encryptMessage("hi", "pk"), "pk", "")
inGroup ==
    InboundMessage(<<"i", "2">>, peerB, groupG, groupG,
                   encryptMessage("yo", "pk"), "pk", "")
inAltered ==
    InboundMessage(<<"i", "3">>, peerB, myAddress, NoString,
                   encryptMessage("hi", "altered"), "pk", "")
inNoKey ==
    InboundMessage(<<"i", "4">>, peerB, myAddress, NoString,
                   encryptMessage("hi", "pk"), "", "")
inOwn ==
    InboundMessage(<<"i", "5">>, myAddress, peerB, NoString,
                   encryptMessage("me", "pk"), myPublicKey, "")

InboundMessages == {inDirect, inGroup, inAltered, inNoKey, inOwn}

SeqsOf(S, n) == UNION { [1..k -> S] : k \in 0..n }

\* What the two transports carry to the client, MaxInbound messages in all.
Inboxes ==
    { [via \in Transports |-> [stream |-> box[via], read |-> 0]] :
          box \in { b \in [Transports -> SeqsOf(InboundMessages, MaxInbound)] :
                       Len(b["relay"]) + Len(b["p2p"]) <= MaxInbound } }

OpenChats == {[address |-> peerB, isGroup |-> FALSE],
              [address |-> <<"c">>, isGroup |-> FALSE],
              [address |-> groupG, isGroup |-> TRUE]}

\* The client is registered and connected, b is registered with the relay,
\* messages are on their way to the client.
InboundStart(boxes, keys) ==
    /\ sockets = [s \in SocketIds |->
                     IF s = 1 THEN [state |-> "open", address |-> peerB]
                     ELSE [state |-> "fresh", address |-> NoString]]
    /\ users = MapSet(EmptyMap, peerB,
                      [socketId |-> 1, publicKey |-> "pk", online |-> TRUE,
                       username |-> NoString])
    /\ usernames = EmptyMap
    /\ offlineMessages = EmptyMap
    /\ messageHistory = EmptyMap
    /\ emitted = <<>>
    /\ StoreIdle
    /\ MutexIdle
    /\ connected = TRUE
    /\ p2pOpen = FALSE
    /\ wire = <<>>
    /\ accepted = {}
    /\ p2pSent = {}
    /\ send = [pc |-> "idle", to |-> NoString, content |-> "", asked |-> FALSE,
               count |-> 0, result |-> NoMessage, error |-> ""]
    /\ flush = [pc |-> "idle", pending |-> <<>>, i |-> 0, total |-> 0,
                sent |-> 0, failed |-> 0, reports |-> <<>>]
    /\ reflush = NoFlush
    /\ flushed = {}
    /\ sentMessageIds = {}
    /\ processedIds = {}
    /\ decrypting = <<>>
    /\ onMessageCalls = <<>>
    /\ saving = <<>>
    /\ activeChat = NoChat
    /\ chatMessages = <<>>
    /\ receipts = <<>>
    /\ inbox \in boxes
    /\ myKeys \in keys
    /\ startup = Started
    /\ PeersIdle

InboundFrame == <<relayVars, clock, received, mutexVars, messagingVars, peerVars>>

\* The relay and the data channel both deliver; the handlers and the
\* callbacks they start resume in any order.
InitInbound == InboundStart(Inboxes, StoredKeys)

NextInbound ==
    \/ \E via \in Transports : handleMessage(via) /\ UNCHANGED InboundFrame
    \/ \E i \in 1..Len(decrypting) : handleMessageResumes(i) /\ UNCHANGED InboundFrame
    \/ \E i \in 1..Len(saving) : callbackResumes(i) /\ UNCHANGED InboundFrame

SpecInbound == InitInbound /\ [][NextInbound]_vars

\* The relay delivers while the user opens and closes conversations and
\* the socket comes and goes.
\* The relay carries direct messages of b, messages of the group and copies
\* of the user's own messages.
RelayInboxes ==
    { [via \in Transports |->
          [stream |-> IF via = "relay" THEN stream ELSE <<>>, read |-> 0]] :
      stream \in SeqsOf({inDirect, inGroup, inOwn}, MaxInbound) }

InitDisplay == InboundStart(RelayInboxes, {KeysOf(myAddress)})

NextDisplay ==
    \/ handleMessage("relay") /\ UNCHANGED InboundFrame
    \/ \E i \in 1..Len(decrypting) : handleMessageResumes(i) /\ UNCHANGED InboundFrame
    \/ \E i \in 1..Len(saving) : callbackResumes(i) /\ UNCHANGED InboundFrame
    \/ \E chat \in OpenChats :
           openChat(chat.address, chat.isGroup) /\ UNCHANGED InboundFrame
    \/ closeChat /\ UNCHANGED InboundFrame
    \/ ConnectionUp /\ UNCHANGED DrainFrame
    \/ ConnectionDown /\ UNCHANGED DrainFrame

SpecDisplay == InitDisplay /\ [][NextDisplay]_vars

----------------------------------------------------------------------------
(* Client: the start of the application *)

\* One register request more is on its way to the relay.
registerEmitted(st) == [st EXCEPT !.requests = @ + 1]

StartupIdle == <<processedIds, decrypting, onMessageCalls, saving, activeChat,
                 chatMessages, receipts, myKeys>>
StartupFrame == <<storeVars, mutexVars, messagingVars, peerVars, StartupIdle>>

\* WalletContext, checkStoredKeys: stored keys are found, the wallet is
\* connected and registerUser is called at once.
checkStoredKeys ==
    /\ startup.wallet = "mount"
    /\ startup' = registerEmitted([startup EXCEPT !.wallet = "done"])
    /\ UNCHANGED <<relayVars, inbox, StartupFrame>>

\* AppContent, once the wallet is connected: initSocket, then the await of
\* getStoredKeys.
appInit ==
    /\ startup.wallet = "done"
    /\ startup.app = "mount"
    /\ startup' = [startup EXCEPT !.app = "getStoredKeys"]
    /\ UNCHANGED <<relayVars, inbox, StartupFrame>>

\* AppContent after the await: register(address, keys.publicKey, username).
appRegisters ==
    /\ startup.app = "getStoredKeys"
    /\ startup' = registerEmitted([startup EXCEPT !.app = "done"])
    /\ UNCHANGED <<relayVars, inbox, StartupFrame>>

\* useChat, once the wallet has an address: the init effect goes through
\* its awaits of initMessaging, getSavedContacts and getStoredKeys.
useChatInit ==
    /\ startup.wallet = "done"
    /\ startup.chat \in {"mount", "initMessaging", "getSavedContacts"}
    /\ startup' = [startup EXCEPT !.chat =
                       CASE @ = "mount" -> "initMessaging"
                         [] @ = "initMessaging" -> "getSavedContacts"
                         [] OTHER -> "getStoredKeys"]
    /\ UNCHANGED <<relayVars, inbox, StartupFrame>>

\* subscribeToMessages: socketService.onMessage(handleMessage).
subscribed(st) == [st EXCEPT !.messageCallback = TRUE]

\* useChat after the await of getStoredKeys: the subscriptions, then
\* registerUser(myAddress, keys.publicKey).
useChatRegisters ==
    /\ startup.chat = "getStoredKeys"
    /\ startup' = registerEmitted([subscribed(startup) EXCEPT !.chat = "done"])
    /\ UNCHANGED <<relayVars, inbox, StartupFrame>>

\* The message the relay emits, as the socket hands it to its handler.
Arriving(msg) ==
    InboundMessage(msg.id, msg.from, msg.to, NoString, msg.encrypted, "pk", "")

\* The relay's register handler takes a register request of the client:
\* the messages it emits are on their way to the client's socket.
RelayRegisters ==
    LET pending == IF Has(offlineMessages, ToLowerCase(myAddress))
                   THEN offlineMessages[ToLowerCase(myAddress)] ELSE <<>>
    IN  /\ startup.requests > 0
        /\ Register(2, myAddress, myPublicKey, NoString)
        /\ startup' = [startup EXCEPT
                           !.requests = @ - 1,
                           !.arriving = @ \o [i \in 1..Len(pending) |-> Arriving(pending[i])]]
        /\ UNCHANGED <<inbox, StartupFrame>>

\* socket.on('message'): if (messageCallback) messageCallback(msg); a message
\* that finds no callback is gone.
socketOnMessage ==
    LET msg == Head(startup.arriving)
    IN  /\ startup.arriving # <<>>
        /\ IF startup.messageCallback
           THEN /\ inbox' = [inbox EXCEPT !["relay"].stream = Append(@, msg)]
                /\ startup' = [startup EXCEPT !.arriving = Tail(@)]
           ELSE /\ startup' = [startup EXCEPT !.arriving = Tail(@),
                                               !.dropped = Append(@, msg)]
                /\ UNCHANGED inbox
        /\ UNCHANGED <<relayVars, StartupFrame>>

\* A message b sent while the client was away, as the relay holds it.
Buffered(i) ==
    [id |-> <<"i", DigitChar(i)>>, to |-> myAddress, from |-> peerB,
     encrypted |-> encryptMessage("hi", "pk")]

\* The application starts with stored keys, on a socket that is connected;
\* the relay holds messages b has sent since the client was last online.
InitStartup ==
    /\ sockets = [s \in SocketIds |->
                     IF s = 1 THEN [state |-> "open", address |-> peerB]
                     ELSE IF s = 2 THEN [state |-> "open", address |-> NoString]
                     ELSE [state |-> "fresh", address |-> NoString]]
    /\ users = MapSet(EmptyMap, peerB,
                      [socketId |-> 1, publicKey |-> "pk", online |-> TRUE,
                       username |-> NoString])
    /\ usernames = EmptyMap
    /\ \E n \in 1..MaxPending :
           /\ offlineMessages = MapSet(EmptyMap, myAddress, [i \in 1..n |-> Buffered(i)])
           /\ messageHistory = MapSet(EmptyMap, getConversationId(peerB, myAddress),
                                      [i \in 1..n |-> Buffered(i)])
    /\ emitted = <<>>
    /\ StoreIdle
    /\ MutexIdle
    /\ connected = TRUE
    /\ p2pOpen = FALSE
    /\ wire = <<>>
    /\ accepted = {}
    /\ p2pSent = {}
    /\ send = [pc |-> "idle", to |-> NoString, content |-> "", asked |-> FALSE,
               count |-> 0, result |-> NoMessage, error |-> ""]
    /\ flush = NoFlush
    /\ reflush = NoFlush
    /\ flushed = {}
    /\ sentMessageIds = {}
    /\ processedIds = {}
    /\ decrypting = <<>>
    /\ onMessageCalls = <<>>
    /\ saving = <<>>
    /\ activeChat = NoChat
    /\ chatMessages = <<>>
    /\ receipts = <<>>
    /\ inbox = [via \in Transports |-> [stream |-> <<>>, read |-> 0]]
    /\ myKeys = KeysOf(myAddress)
    /\ startup = [wallet |-> "mount", app |-> "mount", chat |-> "mount",
                  messageCallback |-> FALSE, requests |-> 0, arriving |-> <<>>,
                  dropped |-> <<>>]
    /\ PeersIdle

NextStartup ==
    \/ checkStoredKeys
    \/ appInit
    \/ appRegisters
    \/ useChatInit
    \/ useChatRegisters
    \/ RelayRegisters
    \/ socketOnMessage
    \/ handleMessage("relay") /\ UNCHANGED InboundFrame
    \/ \E i \in 1..Len(decrypting) : handleMessageResumes(i) /\ UNCHANGED InboundFrame
    \/ \E i \in 1..Len(saving) : callbackResumes(i) /\ UNCHANGED InboundFrame

SpecStartup == InitStartup /\ [][NextStartup]_vars

----------------------------------------------------------------------------
(* Client: messages of its own coming back *)

\* The relay receives a message this client has addressed to its own
\* address: the recipient's socket, to which the relay emits it, is the
\* client's.
RelayEchoes ==
    LET event == Head(wire)
        echo == InboundMessage(event.id, myAddress, ToLowerCase(event.to), NoString,
                               event.encrypted, myPublicKey, "")
    IN  /\ wire # <<>>
        /\ ToLowerCase(event.to) = ToLowerCase(myAddress)
        /\ Len(inbox["relay"].stream) < MaxInbound
        /\ accepted' = accepted \cup {event.id}
        /\ wire' = Tail(wire)
        /\ inbox' = [inbox EXCEPT !["relay"].stream = Append(@, echo)]
        /\ UNCHANGED <<relayVars, store, clock, received, mutexVars, connected,
                       p2pOpen, p2pSent, send, flush, reflush, flushed, sentMessageIds,
                       processedIds, decrypting, onMessageCalls, saving, activeChat,
                       chatMessages, receipts, myKeys, startup,
                       peerVars>>

\* The client is registered with the relay; b has a connection to it.
InitEcho ==
    /\ sockets = [s \in SocketIds |->
                     IF s = 1 THEN [state |-> "open", address |-> NoString]
                     ELSE IF s = 2 THEN [state |-> "open", address |-> myAddress]
                     ELSE [state |-> "fresh", address |-> NoString]]
    /\ users = MapSet(EmptyMap, myAddress,
                      [socketId |-> 2, publicKey |-> myPublicKey, online |-> TRUE,
                       username |-> NoString])
    /\ usernames = EmptyMap
    /\ offlineMessages = EmptyMap
    /\ messageHistory = EmptyMap
    /\ emitted = <<>>
    /\ StoreIdle
    /\ MutexIdle
    /\ MessagingIdle
    /\ InboundIdle
    /\ PeersIdle

\* The user writes to b, to c and to the client's own address.
NextEcho ==
    \/ NextSend
    \/ \E content \in PlainTexts :
           sendMessageCall(myAddress, content) /\ UNCHANGED DrainFrame
    \/ RelayEchoes
    \/ handleMessage("relay") /\ UNCHANGED InboundFrame
    \/ \E i \in 1..Len(decrypting) : handleMessageResumes(i) /\ UNCHANGED InboundFrame
    \/ \E i \in 1..Len(saving) : callbackResumes(i) /\ UNCHANGED InboundFrame

SpecEcho == InitEcho /\ [][NextEcho]_vars

----------------------------------------------------------------------------
(* Client: peer connections *)

PeersFrame == <<relayVars, store, clock, received, mutexVars, messagingVars,
                inboundVars>>

\* The client is connected to the relay; b is registered and online, c is
\* not registered.
InitPeers ==
    InboundStart({[via \in Transports |-> [stream |-> <<>>, read |-> 0]]},
                 {KeysOf(myAddress)})

PeerData == {"d1"}

\* Calls into the service, signals of the peers and events of the SimplePeer
\* objects, while the socket to the relay comes and goes.
NextPeers ==
    \/ \E peerAddress \in Recipients : connectToPeerCall(peerAddress) /\ UNCHANGED PeersFrame
    \/ \E i \in 1..MaxPeers : connectToPeerResumes(i) /\ UNCHANGED PeersFrame
    \/ \E fromAddress \in Recipients : handleIncomingSignal(fromAddress) /\ UNCHANGED PeersFrame
    \/ \E i \in 1..MaxPeers : peerConnects(i) /\ UNCHANGED PeersFrame
    \/ \E i \in 1..MaxPeers : peerCloses(i) /\ UNCHANGED PeersFrame
    \/ \E peerAddress \in Recipients, data \in PeerData, throws \in BOOLEAN :
           webrtcSendToPeer(peerAddress, data, throws) /\ UNCHANGED PeersFrame
    \/ ConnectionUp /\ UNCHANGED <<relayVars, inboundVars, peerVars>>
    \/ ConnectionDown /\ UNCHANGED <<relayVars, inboundVars, peerVars>>

SpecPeers == InitPeers /\ [][NextPeers]_vars

----------------------------------------------------------------------------
(* Properties of the relay *)

EventsOf(events, name) == SelectSeq(events, LAMBDA e : e.event = name)
Closes(s) == sockets[s].state = "open" /\ sockets'[s].state = "closed"
OfflineStatus(s, address) ==
    Emit(ToOthers(s), "userStatus", [address |-> address, online |-> FALSE])

\* C1: when a socket disconnects that is not the one currently registered
\* for its address, the presence registry is unchanged and no userStatus is
\* broadcast; when the currently registered socket disconnects, its address
\* goes offline and the offline status is broadcast; and no address goes
\* from online to offline in any step but the disconnect of the socket
\* currently registered for it.
C1_StaleSocketDisconnect ==
    [][ /\ \A s \in SocketIds :
             Closes(s) /\ sockets[s].address # NoString =>
                 LET address == sockets[s].address
                 IN  IF users[address].socketId = s
                     THEN /\ ~users'[address].online
                          /\ emitted' = << OfflineStatus(s, address) >>
                     ELSE /\ users' = users
                          /\ EventsOf(emitted', "userStatus") = <<>>
        /\ \A address \in DOMAIN users :
             users[address].online /\ ~users'[address].online =>
                 Closes(users[address].socketId)
      ]_vars

\* C1 witness: socket 1, registered for address a, has disconnected without
\* any event while a is registered on socket 2, and a is still online.
C1_Witness ==
    /\ sockets[1] = [state |-> "closed", address |-> addrA]
    /\ sockets[2] = [state |-> "open", address |-> addrA]
    /\ \A s \in SocketIds : sockets[s].state # "fresh" => s \in {1, 2}
    /\ emitted = <<>>
    /\ Has(users, addrA) /\ users[addrA].socketId = 2 /\ users[addrA].online

\* The sendMessage step: the only handler that emits messageSent.
SentIn(events) == EventsOf(events, "messageSent")
ConversationOf(history, msg) ==
    LET convId == getConversationId(msg.from, msg.to)
    IN  IF Has(history, convId) THEN history[convId] ELSE <<>>
BufferOf(buffers, address) ==
    IF Has(buffers, address) THEN buffers[address] ELSE <<>>

\* Delivery outcome of the sendMessage step that sent msg from socket s.
C2_Outcome(s, msg) ==
    IF Has(users, msg.to) /\ users[msg.to].online
    THEN /\ emitted' = << Emit(ToSocket(users[msg.to].socketId), "message", msg),
                          Emit(ToSocket(s), "messageStatus",
                               [id |-> msg.id, status |-> "delivered"]),
                          Emit(ToSocket(s), "messageSent", msg) >>
         /\ offlineMessages' = offlineMessages
    ELSE /\ emitted' = << Emit(ToSocket(s), "messageStatus",
                               [id |-> msg.id, status |-> "stored"]),
                          Emit(ToSocket(s), "messageSent", msg) >>
         /\ BufferOf(offlineMessages', msg.to) =
                Append(BufferOf(offlineMessages, msg.to), msg)
         /\ \A a \in DOMAIN offlineMessages' : a # msg.to =>
                Has(offlineMessages, a) /\ offlineMessages'[a] = offlineMessages[a]

\* history.push(msg), then history.shift() when the cap is exceeded.
Pushed(history, msg) ==
    IF Len(history) >= MAX_HISTORY THEN Tail(Append(history, msg))
    ELSE Append(history, msg)

\* C2 as stated: every sendMessage appends the message to the conversation
\* history, and delivers it with status delivered or buffers it with status
\* stored, according to the recipient being online.
C2_AlwaysAppended ==
    [][ SentIn(emitted') # <<>> =>
            LET msg == SentIn(emitted')[1].payload
                s == SentIn(emitted')[1].to.socket
            IN  /\ msg.from = sockets[s].address
                /\ ConversationOf(messageHistory', msg) =
                       Pushed(ConversationOf(messageHistory, msg), msg)
                /\ C2_Outcome(s, msg)
      ]_vars

\* C2 amended: the message is appended to the conversation history unless
\* that history already holds its id, in which case the history is unchanged;
\* the delivery outcome is as stated.
C2_AppendedUnlessDuplicate ==
    [][ SentIn(emitted') # <<>> =>
            LET msg == SentIn(emitted')[1].payload
                s == SentIn(emitted')[1].to.socket
                before == ConversationOf(messageHistory, msg)
            IN  /\ msg.from = sockets[s].address
                /\ ConversationOf(messageHistory', msg) =
                       IF \E i \in 1..Len(before) : before[i].id = msg.id
                       THEN before
                       ELSE Pushed(before, msg)
                /\ C2_Outcome(s, msg)
      ]_vars

\* C2 witness: a message to an offline recipient was answered with status
\* stored; it is the last entry of the recipient's buffer and of the history.
C2_Witness ==
    /\ Len(emitted) = 2
    /\ emitted[1].event = "messageStatus" /\ emitted[1].payload.status = "stored"
    /\ emitted[2].event = "messageSent"
    /\ LET msg == emitted[2].payload
           buffer == BufferOf(offlineMessages, msg.to)
           history == ConversationOf(messageHistory, msg)
       IN  /\ Len(buffer) = 2 /\ buffer[2] = msg
           /\ history # <<>> /\ history[Len(history)] = msg

\* C3: a register step emits the messages buffered for the address to the
\* registering socket, in buffer order, leaves no buffer for the address,
\* and emits every one of them before the userStatus broadcast.
C3_RegisterFlushesInOrder ==
    [][ EventsOf(emitted', "registered") # <<>> =>
            LET reg == EventsOf(emitted', "registered")[1]
                address == reg.payload.address
                s == reg.to.socket
                pending == BufferOf(offlineMessages, address)
                n == Len(pending)
            IN  /\ Len(emitted') = n + 2
                /\ \A i \in 1..n :
                       emitted'[i] = Emit(ToSocket(s), "message", pending[i])
                /\ emitted'[n + 1] = reg
                /\ emitted'[n + 2] = Emit(ToOthers(s), "userStatus",
                                          [address |-> address, online |-> TRUE])
                /\ ~Has(offlineMessages', address)
                /\ users'[address].online /\ users'[address].socketId = s
      ]_vars

\* C3 witness: a registration has just flushed two different buffered
\* messages, then broadcast the online status; the buffer is gone.
C3_Witness ==
    /\ Len(emitted) = 4
    /\ emitted[1].event = "message" /\ emitted[2].event = "message"
    /\ emitted[1].payload # emitted[2].payload
    /\ emitted[3].event = "registered"
    /\ emitted[4].event = "userStatus" /\ emitted[4].to.kind = "broadcast"
    /\ ~Has(offlineMessages, emitted[3].payload.address)

----------------------------------------------------------------------------
(* Properties of the username directory *)

Normalized(username) == Trim(ToLowerCase(username))
AckOf(events) == events[1].payload
ResolvesTo(registry, presence, username, address) ==
    LET found == lookupByUsername(registry, presence, username)
    IN  found.found /\ found.address = address

\* C4: the username registry and the presence registry agree: every
\* registered name maps to an address whose presence record carries that
\* name, and no two presence records carry the same name (case-insensitive).
C4_UsernameBijection ==
    /\ \A name \in DOMAIN usernames :
           /\ Has(users, usernames[name])
           /\ Normalized(users[usernames[name]].username) = name
    /\ \A x, y \in DOMAIN users :
           x # y /\ users[x].username # NoString =>
               Normalized(users[x].username) # Normalized(users[y].username)

\* C5: a setUsername by an unregistered socket, with a malformed name or
\* with a name owned by another address answers success = false with a
\* reason ("Username already taken" for an owned name) and changes neither
\* registry.
C5_RejectedSetUsername ==
    [][ \A s \in SocketIds, username \in SetUsernameInputs :
            SetUsername(s, username) =>
                LET name == Normalized(username)
                    address == sockets[s].address
                    malformed == \/ Len(name) < 3
                                 \/ Len(name) > 20
                                 \/ \E i \in 1..Len(name) : name[i] \notin UsernameChars
                    taken == Has(usernames, name) /\ usernames[name] # address
                IN  (address = NoString \/ malformed \/ taken) =>
                        /\ Len(emitted') = 1
                        /\ emitted'[1].to = Ack(s)
                        /\ AckOf(emitted').success = FALSE
                        /\ AckOf(emitted').error # ""
                        /\ (address # NoString /\ ~malformed =>
                                AckOf(emitted').error = "Username already taken")
                        /\ users' = users
                        /\ usernames' = usernames
      ]_vars

\* C5 witness: a setUsername was answered "Username already taken".
C5_Witness ==
    /\ Len(emitted) = 1
    /\ emitted[1].event = "setUsername"
    /\ emitted[1].payload = [success |-> FALSE, error |-> "Username already taken"]

\* C6: after a successful setUsername(new) by an address whose presence
\* record carried a different name old, lookupByUsername(old) finds nothing
\* and lookupByUsername(new) finds the address.
C6_OldUsernameReleased ==
    [][ \A s \in SocketIds, username \in SetUsernameInputs :
            (SetUsername(s, username) /\ AckOf(emitted').success) =>
                LET address == sockets[s].address
                    old == users[address].username
                IN  (old # NoString /\ Normalized(old) # Normalized(username)) =>
                        /\ ~lookupByUsername(usernames', users', old).found
                        /\ ResolvesTo(usernames', users', username, address)
      ]_vars

\* C7: when an address whose presence record carries a name u, which the
\* directory resolves to that address, registers again without a username,
\* its record still carries u and the directory still resolves u to it.
C7_UsernameRetained ==
    [][ \A s \in SocketIds, address \in AddressInputs, publicKey \in PublicKeys :
            Register(s, address, publicKey, NoString) =>
                LET x == ToLowerCase(address)
                IN  (/\ Has(users, x)
                     /\ users[x].username # NoString
                     /\ ResolvesTo(usernames, users, users[x].username, x)) =>
                        /\ users'[x].username = users[x].username
                        /\ ResolvesTo(usernames', users', users[x].username, x)
      ]_vars

\* C7 witness: a registration has just answered with the name amy, which
\* only setUsername can have given, and the directory resolves amy to the
\* registering address.
C7_Witness ==
    /\ Len(emitted) = 2
    /\ emitted[1].event = "registered"
    /\ emitted[1].payload.username = amy
    /\ ResolvesTo(usernames, users, amy, emitted[1].payload.address)

----------------------------------------------------------------------------
(* Properties of the local store *)

chatP == <<"P">>
LogOf(d) == getItem(d, StorageKey(chatP))
LogAfter(d) ==
    IF Has(store'[d], StorageKey(chatP)) THEN store'[d][StorageKey(chatP)] ELSE <<>>
RecordsWithId(log, id) == SelectSeq(log, LAMBDA r : r.id = id)
IdsOf(log) == [i \in 1..Len(log) |-> log[i].id]
IdSet(log) == {log[i].id : i \in 1..Len(log)}
StoredWithOtherStatus(log, m) ==
    \E i \in 1..Len(log) : log[i].id = m.id /\ log[i].status # m.status

\* C8: saveMessage of a message whose id is in the log leaves the store
\* unchanged, and after any saveMessage of m a second saveMessage of m, at
\* any later time, gives the same log.
C8_AppendIdempotent ==
    [][ \A m \in StoreMessages :
            saveMessage(1, chatP, m) =>
                /\ HasId(LogOf(1), m.id) => store' = store
                /\ \A now \in clock..MaxClock :
                       saveMessageResult(LogAfter(1), m, now) = LogAfter(1)
      ]_vars

\* C8 witness: both messages with id a have been handed to the store and
\* the log holds one record with id a.
C8_Witness ==
    /\ {msgA, msgADelivered} \subseteq received[1]
    /\ Len(RecordsWithId(LogOf(1), <<"a">>)) = 1
    /\ Len(LogOf(1)) = 3

\* C9 as stated: when a stored id is received again with another status, the
\* stored record takes the new status and keeps its other fields.
C9_StatusLastWriteWins ==
    [][ \A m \in StoreMessages :
            (saveMessage(1, chatP, m) /\ StoredWithOtherStatus(LogOf(1), m)) =>
                \E i \in 1..Len(LogOf(1)) :
                    /\ LogOf(1)[i].id = m.id
                    /\ RecordsWithId(LogAfter(1), m.id) =
                           << [LogOf(1)[i] EXCEPT !.status = m.status] >>
      ]_vars

\* C9 amended: when a stored id is received again with another status, by
\* saveMessage or in a saveMessagesBulk, the stored record keeps every field
\* as first written, status included.
C9_FirstWriteWins ==
    [][ /\ \A m \in StoreMessages :
               (saveMessage(1, chatP, m) /\ StoredWithOtherStatus(LogOf(1), m)) =>
                   RecordsWithId(LogAfter(1), m.id) = RecordsWithId(LogOf(1), m.id)
        /\ \A messages \in BulkInputs(StoreMessages) :
               saveMessagesBulk(1, chatP, messages) =>
                   \A j \in 1..Len(messages) :
                       StoredWithOtherStatus(LogOf(1), messages[j]) =>
                           RecordsWithId(LogAfter(1), messages[j].id) =
                               RecordsWithId(LogOf(1), messages[j].id)
      ]_vars

\* C9 witness: the message with id a and status delivered has been handed
\* to the store, and the record with id a is the one first written, with
\* status sent.
C9_Witness ==
    /\ msgADelivered \in received[1]
    /\ Len(RecordsWithId(LogOf(1), <<"a">>)) = 1
    /\ RecordsWithId(LogOf(1), <<"a">>)[1].status = "sent"

\* C10 as stated: two devices that were handed the same set of messages
\* hold the same sequence of ids.
C10_SameOrder ==
    received[1] = received[2] => IdsOf(LogOf(1)) = IdsOf(LogOf(2))

\* C10 amended: two devices that were handed the same set of messages hold
\* the same logs when every message of the set carries a savedAt, and the
\* same set of ids in any case (for sets within the retention cap).
C10_SameOrderWhenStamped ==
    received[1] = received[2] =>
        /\ Cardinality(received[1]) <= MAX_HISTORY_PER_CHAT =>
               /\ IdSet(LogOf(1)) = {m.id : m \in received[1]}
               /\ IdSet(LogOf(2)) = IdSet(LogOf(1))
        /\ (\A m \in received[1] : m.savedAt # 0) => LogOf(1) = LogOf(2)

\* C10 witness: both devices were handed the two messages that carry a
\* savedAt, and hold them in the order of the sort key.
C10_Witness ==
    /\ received[1] = {msgC, msgD}
    /\ received[2] = {msgC, msgD}
    /\ LogOf(1) = <<msgC, msgD>>
    /\ LogOf(2) = <<msgC, msgD>>

SortKeyLess(a, b) == messageSort(a, b) < 0

\* The key a message handed to the store without savedAt can have been
\* stamped with: any clock value up to now.
StampedKeys(m) ==
    IF m.savedAt # 0 THEN {m} ELSE {Stamp(m, now) : now \in 1..(clock + MaxBulk)}

\* C11: once more than 1,000 messages with distinct ids have been handed to
\* a conversation, its log holds exactly 1,000 entries; every message handed
\* to it that the log does not hold sorts, under (savedAt else timestamp,
\* then id) with the savedAt it was stamped with, before every entry the log
\* holds; and a step that evicts leaves the 1,000 greatest of the old log
\* and the arrivals.
C11_RetentionBound ==
    LET log == LogOf(1)
        ids == IdSet(log)
    IN  /\ Len(log) <= MAX_HISTORY_PER_CHAT
        /\ Cardinality({m.id : m \in received[1]}) > MAX_HISTORY_PER_CHAT =>
               /\ Len(log) = MAX_HISTORY_PER_CHAT
               /\ \A m \in received[1] :
                      m.id \notin ids =>
                          \E k \in StampedKeys(m) : SortKeyLess(k, log[1])
        /\ \A i \in 1..(Len(log) - 1) : SortKeyLess(log[i], log[i + 1])

\* C11 witness: more than 1,000 distinct ids were handed to the conversation;
\* the oldest filler entry and the message stamped on arrival were evicted
\* and the newest arrival closes the log.
C11_Witness ==
    /\ Cardinality({m.id : m \in received[1]}) > MAX_HISTORY_PER_CHAT + 1
    /\ Len(LogOf(1)) = MAX_HISTORY_PER_CHAT
    /\ {lateA, newF, midE} \subseteq received[1]
    /\ ~HasId(LogOf(1), lateA.id)
    /\ ~HasId(LogOf(1), FillerId(1))
    /\ LogOf(1)[MAX_HISTORY_PER_CHAT] = newF

\* C12: after any sequence of saveMessage and saveMessagesBulk calls, every
\* conversation log has pairwise distinct ids, is sorted ascending by
\* (savedAt else timestamp, then id), and has at most 1,000 entries.
C12_LogInvariant ==
    \A d \in Devices :
        LET log == LogOf(d)
        IN  /\ \A i, j \in 1..Len(log) : i # j => log[i].id # log[j].id
            /\ IsSorted(log)
            /\ Len(log) <= MAX_HISTORY_PER_CHAT

----------------------------------------------------------------------------
(* Properties of the calls in flight *)

Settled(key) ==
    SelectSeq(chain[key], LAMBDA cb : cb.phase = "done")
InFlight(key) ==
    \E i \in 1..Len(chain[key]) : chain[key][i].phase # "done"

\* The value a key holds after the callbacks have run one after the other,
\* each at the time it ran.
RECURSIVE Replay(_, _)
Replay(callbacks, n) ==
    IF n = 0 THEN <<>>
    ELSE CallbackResult(callbacks[n], Replay(callbacks, n - 1), callbacks[n].ranAt)

\* C13: for saveMessage and saveMessagesBulk calls on one conversation and
\* savePendingMessage and removePendingMessage calls on the outbox, issued
\* while earlier ones are in flight: at most one callback per key is between
\* its read and its write, what it read is what the key holds, the key holds
\* what running the settled calls one after the other in the order of
\* issue gives, and every message of a settled saveMessage is in the log.
C13_Serialized ==
    \A key \in MutexKeys :
        /\ getItem(1, key) = Replay(Settled(key), Len(Settled(key)))
        /\ \A i \in 1..Len(chain[key]) :
               chain[key][i].phase = "read" =>
                   /\ chain[key][i].value = getItem(1, key)
                   /\ \A j \in 1..Len(chain[key]) :
                          j # i => chain[key][j].phase # "read"
                   /\ \A j \in 1..Len(chain[key]) :
                          chain[key][j].phase = "done" <=> j < i
        /\ \A i \in 1..Len(chain[key]) :
               (chain[key][i].phase = "done" /\ chain[key][i].op = "saveMessage") =>
                   HasId(getItem(1, key), chain[key][i].messages[1].id)

\* C13 witness: three calls on the conversation were issued before the
\* first had read; all have settled and the log holds the three messages.
C13_Witness ==
    LET key == StorageKey(<<"P">>)
    IN  /\ Len(chain[key]) = 3
        /\ \A i \in 1..3 : chain[key][i].phase = "done"
        /\ chain[key][1].ranAt > 1
        /\ chain[key][1].op = "saveMessage"
        /\ chain[key][3].op = "saveMessagesBulk"
        /\ IdSet(getItem(1, key)) = {msgA.id, msgB.id, msgC.id}

\* Ids carried by the callbacks that had not settled when the store was
\* last cleared.
PendingAtClear(key) ==
    UNION { {chain[key][i].messages[j].id : j \in 1..Len(chain[key][i].messages)} :
                i \in {n \in 1..Len(cleared.issued[key]) :
                           cleared.issued[key][n] # "done"} }

\* C14: once clearHistory and every append issued before it have completed
\* (and nothing was issued since), no message that was stored when
\* clearHistory was called is in the log, unless an append in flight at
\* that moment carried it.
C14_ClearHistorySerialized ==
    LET key == StorageKey(<<"P">>)
    IN  (cleared.kind = "clearHistory" /\ ~InFlight(key)) =>
            \A id \in cleared.stored \ PendingAtClear(key) :
                ~HasId(getItem(1, key), id)

\* C15: once clearAllData and every call issued before it have completed
\* (and nothing was issued since), the store holds no conversation entry, no
\* contact list and no outbox entry.
C15_ClearAllComplete ==
    (cleared.kind = "clearAllData" /\ \A key \in MutexKeys : ~InFlight(key)) =>
        /\ \A key \in MutexKeys : getItem(1, key) = <<>>
        /\ ~Has(store[1], CONTACTS_KEY)

----------------------------------------------------------------------------
(* Properties of sending and the outbox *)

OutboxAfter ==
    IF Has(store'[1], OUTBOX_KEY) THEN store'[1][OUTBOX_KEY] ELSE <<>>
WireIdsAfter == {wire'[i].id : i \in 1..Len(wire')}
ChatLog(to) == getItem(1, StorageKey(to))
LastId == ClientMessageId(send.count)

\* C16: an outbox entry is removed only after its message was confirmed
\* sent, so that every message that has left the outbox is on its way to
\* the relay or has been received by the relay or the peer.
C16_RemovedOnlyWhenSent ==
    \A id \in flushed : id \in WireIds \cup accepted \cup p2pSent

\* C17: when the recipient's key cannot be resolved, sendEncryptedMessage
\* appends exactly one entry with a new id to the outbox, with status
\* pending, transport queued, the plaintext and no ciphertext, sends nothing
\* on the relay or the data channel, and fails with an error of level info
\* and no result.
C17_UnresolvedKeyQueuesPlaintext ==
    [][ (sendEncryptedMessage /\ getPublicKey(send.asked, send.to) = "") =>
            /\ Len(OutboxAfter) = Len(Outbox) + 1
            /\ SubSeq(OutboxAfter, 1, Len(Outbox)) = Outbox
            /\ LET entry == OutboxAfter[Len(OutboxAfter)]
               IN  /\ ~HasId(Outbox, entry.id)
                   /\ entry.status = "pending"
                   /\ entry.transport = "queued"
                   /\ entry.content = send.content
                   /\ entry.to = send.to
                   /\ entry.encrypted = NoCipher
            /\ wire' = wire
            /\ p2pSent' = p2pSent
            /\ send'.pc = "idle"
            /\ send'.error = "info"
            /\ send'.result = NoMessage
      ]_vars

\* C17 witness: a send to a recipient without a key has failed softly and
\* its plaintext is the one entry of the outbox; nothing was sent.
C17_Witness ==
    /\ send.pc = "idle"
    /\ send.error = "info"
    /\ Len(Outbox) = 1
    /\ Outbox[1].id = LastId
    /\ Outbox[1].transport = "queued"
    /\ Outbox[1].encrypted = NoCipher
    /\ wire = <<>> /\ accepted = {} /\ p2pSent = {}

\* C18: when the recipient's key is resolved, sendEncryptedMessage sends on
\* the data channel if it takes the message; otherwise on the relay if the
\* socket is connected; otherwise it appends the encrypted message to the
\* outbox and returns status pending, transport queued without an error.
\* The message ends on exactly one of the three.
C18_OneTransport ==
    [][ (sendEncryptedMessage /\ getPublicKey(send.asked, send.to) # "") =>
            LET id == ClientMessageId(send.count + 1)
                onP2P == id \in p2pSent'
                onRelay == id \in WireIdsAfter
                onOutbox == HasId(OutboxAfter, id)
            IN  /\ ~HasId(Outbox, id) /\ id \notin WireIds /\ id \notin p2pSent
                /\ send'.error = ""
                /\ send'.result.id = id
                /\ IF p2pOpen
                   THEN /\ onP2P /\ ~onRelay /\ ~onOutbox
                        /\ send'.result.status = "sent"
                        /\ send'.result.transport = "p2p"
                   ELSE IF connected
                   THEN /\ onRelay /\ ~onP2P /\ ~onOutbox
                        /\ send'.result.status = "sent"
                        /\ send'.result.transport = "relay"
                   ELSE /\ onOutbox /\ ~onP2P /\ ~onRelay
                        /\ OutboxAfter[Len(OutboxAfter)].encrypted # NoCipher
                        /\ OutboxAfter[Len(OutboxAfter)].encrypted = send'.result.encrypted
                        /\ send'.result.status = "pending"
                        /\ send'.result.transport = "queued"
                /\ p2pSent' \ {id} = p2pSent
                /\ IF onRelay
                   THEN Len(wire') = Len(wire) + 1 /\ SubSeq(wire', 1, Len(wire)) = wire
                   ELSE wire' = wire
                /\ IF onOutbox
                   THEN /\ Len(OutboxAfter) = Len(Outbox) + 1
                        /\ SubSeq(OutboxAfter, 1, Len(Outbox)) = Outbox
                   ELSE store' = store
      ]_vars

\* C18 witness: a send with a resolved key found neither channel nor relay
\* and returned pending / queued; the outbox holds the ciphertext.
C18_Witness ==
    /\ send.pc = "saveMessage"
    /\ send.error = ""
    /\ send.result.status = "pending"
    /\ send.result.transport = "queued"
    /\ Len(Outbox) = 1
    /\ Outbox[1].id = send.result.id
    /\ Outbox[1].encrypted = encryptMessage("hello", "pk")
    /\ wire = <<>> /\ p2pSent = {}

\* C19: once a send has completed, transmitted or queued (whether for an
\* unreachable relay or for an unresolved key), the conversation log holds
\* the message, with status sent if transmitted and pending if queued.
C19_AcceptedSendIsLogged ==
    (send.pc = "idle" /\ send.count > 0) =>
        \E i \in 1..Len(ChatLog(send.to)) :
            /\ ChatLog(send.to)[i].id = LastId
            /\ ChatLog(send.to)[i].status =
                   IF send.error = "info" \/ send.result.transport = "queued"
                   THEN "pending" ELSE "sent"

\* C20: an iteration of the flush loop leaves the store and the relay
\* untouched when the socket is not connected or when the entry has no
\* ciphertext and its recipient has no key, and goes on to the next entry;
\* any other entry is emitted to the relay and removed, the others kept.
C20_FlushRetains ==
    [][ flushEntry =>
            LET msg == flush.pending[flush.i]
                unresolved == /\ msg.encrypted = NoCipher
                              /\ getPublicKey(connected, msg.to) = ""
            IN  /\ (flush.i < Len(flush.pending) =>
                        flush'.pc = "loop" /\ flush'.i = flush.i + 1)
                /\ (flush.i = Len(flush.pending) => flush'.pc = "idle")
                /\ IF ~connected \/ unresolved
                   THEN /\ store' = store
                        /\ wire' = wire
                        /\ flushed' = flushed
                        /\ flush'.failed = flush.failed + 1
                   ELSE /\ wire' = Append(wire, wire'[Len(wire')])
                        /\ wire'[Len(wire')].id = msg.id
                        /\ wire'[Len(wire')].encrypted # NoCipher
                        /\ OutboxAfter = SelectSeq(Outbox, LAMBDA m : m.id # msg.id)
                        /\ flush'.sent = flush.sent + 1
      ]_vars

\* C20 witness: a flush has ended that kept its first entry and sent its
\* second.
C20_Witness ==
    /\ flush.pc = "idle"
    /\ flush.failed = 1
    /\ flush.sent = 1
    /\ Len(Outbox) = 1
    /\ Outbox[1].id = ClientMessageId(1)
    /\ ClientMessageId(2) \in flushed

\* C21: a flush counts every entry it could not send instead of failing:
\* while it runs, sent + failed is the number of entries it has been
\* through; when it has returned, sent + failed is the number of entries the
\* outbox held when it started; sent is the number of entries it emitted and
\* removed, each reported once to onFlushed with status sent.
C21_FlushSummary ==
    /\ flush.pc = "loop" =>
           /\ flush.total = Len(flush.pending)
           /\ flush.sent + flush.failed = flush.i - 1
    /\ flush.pc = "idle" => flush.sent + flush.failed = flush.total
    /\ Len(flush.reports) = flush.sent
    /\ \A i \in 1..Len(flush.reports) :
           /\ flush.reports[i].status = "sent"
           /\ flush.reports[i].id \in flushed
           /\ ~HasId(Outbox, flush.reports[i].id)
           /\ \A j \in 1..Len(flush.reports) :
                  flush.reports[j].id = flush.reports[i].id => j = i

\* C21 witness: a flush of two entries has returned having kept the first
\* and reported the second.
C21_Witness ==
    /\ flush.pc = "idle"
    /\ flush.total = 2
    /\ flush.failed = 1
    /\ flush.reports = <<[id |-> ClientMessageId(2), status |-> "sent"]>>

\* The ids this flush has handed to the relay, and how many events carry
\* each of them on the way there.
HandedToRelay ==
    {flush.reports[i].id : i \in 1..Len(flush.reports)} \cap (WireIds \cup accepted)
OnWire(id) == Cardinality({i \in 1..Len(wire) : wire[i].id = id})

Drained ==
    /\ flush.pc = "idle"
    /\ Outbox = <<>>
    /\ flush.sent = flush.total
    /\ flush.failed = 0
    /\ Cardinality(HandedToRelay) = flush.total
    /\ \A id \in HandedToRelay : OnWire(id) = IF id \in accepted THEN 0 ELSE 1

\* C22: over a connected relay that resolves every recipient's key, a
\* flush that has started on N entries returns; the outbox is then empty,
\* the relay has been handed N messages, one for each entry, and the summary
\* is sent N, failed 0.
C22_OutboxDrains == (flush.pc = "loop") ~> Drained

\* C22 witness: a flush of two entries has returned with nothing left.
C22_Witness ==
    /\ Drained
    /\ flush.total = 2
    /\ accepted = {ClientMessageId(1), ClientMessageId(2)}

\* C23: a message queued for a recipient who has since registered leaves
\* the outbox and reaches the relay, which delivers it, unless the client
\* loses its connection first.
C23_QueuedIsDelivered ==
    \A n \in 1..MaxSends :
        (/\ HasId(Outbox, ClientMessageId(n))
         /\ \A a \in PeerAddresses : Has(users, a)
         /\ connected)
        ~> (~connected \/ ClientMessageId(n) \in accepted)

----------------------------------------------------------------------------
(* Properties of inbound messages *)

InboundIds == {m.id : m \in InboundMessages}
CountId(seq, id) == Cardinality({k \in 1..Len(seq) : seq[k].id = id})
Logged(id) ==
    Cardinality(UNION { { <<key, k>> : k \in {j \in 1..Len(store[1][key]) :
                                                 store[1][key][j].id = id} } :
                        key \in DOMAIN store[1] })
Delivered(via, id) ==
    \E k \in 1..inbox[via].read : inbox[via].stream[k].id = id

\* C24: however the copies of a message that the relay and the data
\* channel deliver interleave with the handlers, the callback is invoked
\* once for its id (the one handler that took it is first awaiting the
\* decryption), and once the callback has saved it the log holds one
\* record with its id.
C24_OneCallbackOneRecord ==
    \A id \in InboundIds :
        /\ CountId(decrypting, id) + CountId(onMessageCalls, id) =
               IF \E via \in Transports : Delivered(via, id) THEN 1 ELSE 0
        /\ CountId(saving, id) + Logged(id) = CountId(onMessageCalls, id)

\* C24 witness: the relay and the data channel have both delivered the same
\* message, the second copy while the first was being decrypted; the
\* callback has run once and the log holds one record.
C24_Witness ==
    /\ Delivered("relay", inDirect.id)
    /\ Delivered("p2p", inDirect.id)
    /\ decrypting = <<>> /\ saving = <<>>
    /\ CountId(onMessageCalls, inDirect.id) = 1
    /\ Logged(inDirect.id) = 1

\* The ids of the messages this client has sent: over the data channel, on
\* the relay, or out of the outbox.
OwnSentIds == p2pSent \cup WireIds \cup accepted \cup flushed

\* C25: a message that comes in with the id of a message this client has
\* sent is dropped by handleMessage: it is never decrypted and never handed
\* to the callback.
C25_EchoDropped ==
    /\ \A k \in 1..Len(decrypting) : decrypting[k].id \notin OwnSentIds
    /\ \A k \in 1..Len(onMessageCalls) : onMessageCalls[k].id \notin OwnSentIds

\* A record of a message whose plaintext was not recovered.
NotRecovered(r) == r.encrypted # NoCipher /\ r.content # r.encrypted[1]

\* C26: a message whose decryption failed is handed to the callback marked
\* decryptionFailed and with a failure placeholder as its content; no record
\* of a failed decryption is marked decryptionFailed = FALSE.
C26_FailureIsMarked ==
    \A k \in 1..Len(onMessageCalls) :
        NotRecovered(onMessageCalls[k]) =>
            /\ onMessageCalls[k].decryptionFailed
            /\ onMessageCalls[k].content \in {KeyNotFound, DecryptionFailed}

----------------------------------------------------------------------------
(* Properties of the peer connections *)

\* The state of a peer address; idle while the service has none for it.
PeerState(states, peerAddress) ==
    IF Has(states, peerAddress) THEN states[peerAddress] ELSE "idle"

\* The changes of state of the connection manager; a connection that was
\* disconnected starts again as an idle one does.
PeerTransitions ==
    {<<"idle", "connecting">>, <<"disconnected", "connecting">>,
     <<"connecting", "connected">>,
     <<"connecting", "disconnected">>, <<"connected", "disconnected">>}

\* C27: the state of a peer address changes only from idle (or
\* disconnected) to connecting, from connecting to connected, and from
\* connecting or connected to disconnected; when it becomes disconnected
\* the address has no peer entry any more; a connect to a peer that is
\* not online returns null and changes neither the states nor the entries.
C27_ConnectionStateMachine ==
    [][\A peerAddress \in Recipients :
          LET before == PeerState(connectionStates, peerAddress)
              after == PeerState(connectionStates', peerAddress)
          IN  /\ before # after => <<before, after>> \in PeerTransitions
              /\ (before # after /\ after = "disconnected") => ~Has(peers', peerAddress)
              /\ (returned' # returned
                     /\ returned' = Returned("connectToPeer", peerAddress, "null"))
                    => UNCHANGED <<peers, connectionStates, instances>>]_vars

\* C28: sendToPeer returns true only for an address whose peer entry is
\* connected and not destroyed, and then the payload has been written to
\* that peer; when it returns false nothing is written; it never changes a
\* peer entry, a peer or a connection state.
C28_SendToPeer ==
    [][\A peerAddress \in Recipients :
          (/\ returned'.op = "sendToPeer" /\ returned'.address = peerAddress
           /\ <<returned, channel>>' # <<returned, channel>>)
          => /\ returned'.value = "true" =>
                    /\ Has(peers, peerAddress)
                    /\ instances[peers[peerAddress]].connected
                    /\ ~instances[peers[peerAddress]].destroyed
                    /\ \E data \in PeerData :
                           channel' = channel \cup {[peer |-> peers[peerAddress],
                                                     data |-> data]}
             /\ returned'.value # "true" =>
                    /\ returned'.value = "false"
                    /\ channel' = channel
             /\ UNCHANGED <<peers, connectionStates, instances>>]_vars

\* C28 witness: a payload has been written to the connected peer of b and
\* sendToPeer has returned true, next to a peer that is still connecting.
C28_Witness ==
    /\ returned = Returned("sendToPeer", <<"b">>, "true")
    /\ channel # {}
    /\ Has(peers, <<"c">>) /\ ~instances[peers[<<"c">>]].connected

----------------------------------------------------------------------------
(* Properties of the message callback *)

HasReceipt(log, msg, type) ==
    \E k \in 1..Len(log) :
        log[k] = [messageId |-> msg.id, to |-> msg.from, type |-> type]

\* The log of the conversation holds the message.
PersistedUnder(stores, id, msg) ==
    /\ Has(stores[1], StorageKey(id))
    /\ \E k \in 1..Len(stores[1][StorageKey(id)]) :
           /\ stores[1][StorageKey(id)][k].id = msg.id
           /\ stores[1][StorageKey(id)][k].content = msg.content

\* The open conversation is the one the message belongs to.
ConversationOpen(msg) ==
    IF msg.groupId # NoString
    THEN activeChat.isGroup /\ ToLowerCase(activeChat.address) = msg.groupId
    ELSE /\ ~activeChat.isGroup
         /\ \/ ToLowerCase(activeChat.address) = ToLowerCase(msg.from)
            \/ ToLowerCase(activeChat.address) = ToLowerCase(msg.to)

\* The message is in the store under its group id, else under its sender,
\* and the visible list has grown only by a message of the open chat.
StoredAndShown(msg) ==
    /\ PersistedUnder(store', IF msg.groupId # NoString THEN msg.groupId ELSE msg.from,
                      msg)
    /\ chatMessages' # chatMessages =>
           /\ chatMessages' = Append(chatMessages, msg)
           /\ activeChat.address # NoString
           /\ ConversationOpen(msg)

\* C29, as stated: every message the callback is called with is stored
\* under its contact or group id, is appended to the visible list only if it
\* belongs to the open conversation, and is answered with a delivery
\* receipt to its sender, and with a read receipt when its conversation is
\* open.
C29_EveryMessageReceipted ==
    [][\A i \in 1..Len(saving) :
          saving' = Without(saving, i) =>
              /\ StoredAndShown(saving[i])
              /\ HasReceipt(receipts', saving[i], "delivered")
              /\ ConversationOpen(saving[i]) => HasReceipt(receipts', saving[i], "read")]_vars

\* C29, amended: every message the callback is called with is stored under
\* its group id, else under its sender's address, and is appended to the
\* visible list only if it belongs to the open conversation; a delivery
\* receipt goes to its sender exactly when it is a direct message of
\* another address and the socket is connected, and a read receipt exactly
\* when, in addition, the chat with its sender is the open one.
C29_DirectMessagesReceipted ==
    [][\A i \in 1..Len(saving) :
          saving' = Without(saving, i) =>
              LET msg == saving[i]
                  direct == /\ msg.groupId = NoString
                            /\ ToLowerCase(msg.from) # ToLowerCase(myAddress)
                            /\ connected
              IN  /\ StoredAndShown(msg)
                  /\ HasReceipt(receipts', msg, "delivered") <=> direct
                  /\ HasReceipt(receipts', msg, "read") <=>
                         (direct /\ ToLowerCase(activeChat.address) = ToLowerCase(msg.from))
                  /\ Len(receipts') - Len(receipts) =
                         IF HasReceipt(receipts', msg, "read") THEN 2
                         ELSE IF direct THEN 1 ELSE 0]_vars

\* C29 witness: with the group g open, a direct message of b and a message of
\* the group have been through the callback: both are stored, the group
\* message alone is shown, the direct message alone has a delivery receipt.
C29_Witness ==
    /\ activeChat = [address |-> groupG, isGroup |-> TRUE]
    /\ saving = <<>>
    /\ PersistedUnder(store, peerB, Decrypted(inDirect, "hi", FALSE))
    /\ PersistedUnder(store, groupG, Decrypted(inGroup, "yo", FALSE))
    /\ chatMessages = <<Decrypted(inGroup, "yo", FALSE)>>
    /\ receipts = <<[messageId |-> inDirect.id, to |-> peerB, type |-> "delivered"]>>

----------------------------------------------------------------------------
(* Properties of the relay's histories *)

HistoryOf(history, convId) == IF Has(history, convId) THEN history[convId] ELSE <<>>

\* C30: a relayed message leaves every conversation history with at most
\* MAX_HISTORY entries of pairwise distinct ids; a history is left as it was
\* or has a new entry at its end behind the entries it had, in their order,
\* without the oldest of them when it was at the cap; and the relayed
\* message is the last entry of its conversation unless its id was there.
C30_BoundedHistory ==
    [][/\ SentIn(emitted') # <<>> =>
            LET msg == SentIn(emitted')[1].payload
                before == ConversationOf(messageHistory, msg)
                after == ConversationOf(messageHistory', msg)
            IN  \/ \E i \in 1..Len(before) : before[i].id = msg.id
                \/ after # <<>> /\ after[Len(after)] = msg
       /\ \A convId \in DOMAIN messageHistory' :
          LET before == HistoryOf(messageHistory, convId)
              after == messageHistory'[convId]
          IN  /\ Len(after) <= MAX_HISTORY
              /\ Cardinality({after[i].id : i \in 1..Len(after)}) = Len(after)
              /\ \/ after = before
                 \/ /\ Len(before) < MAX_HISTORY
                    /\ Len(after) = Len(before) + 1
                    /\ SubSeq(after, 1, Len(before)) = before
                 \/ /\ Len(before) = MAX_HISTORY
                    /\ Len(after) = MAX_HISTORY
                    /\ SubSeq(after, 1, MAX_HISTORY - 1) = Tail(before)]_vars

\* C30 witness: the conversation of a and b is at the cap, its two oldest
\* entries have been evicted, and the id of the oldest, sent again since,
\* is its newest entry.
C30_Witness ==
    LET h == HistoryOf(messageHistory, getConversationId(myAddress, <<"b">>))
    IN  /\ Len(h) = MAX_HISTORY
        /\ h[1].id = FillerId(3)
        /\ h[MAX_HISTORY].id = FillerId(1)

----------------------------------------------------------------------------
(* Properties of the relay: duplicates, receipts, presence *)

NoIdTwice(seq) == \A i, j \in 1..Len(seq) : seq[i].id = seq[j].id => i = j

\* C31: relaying an id again creates no second entry for it: no
\* conversation history and no offline buffer holds an id twice, and the
\* messages a registration flushes to a client carry no id twice.
C31_DuplicateIsNoOp ==
    /\ \A convId \in DOMAIN messageHistory : NoIdTwice(messageHistory[convId])
    /\ \A address \in DOMAIN offlineMessages : NoIdTwice(offlineMessages[address])
    /\ NoIdTwice([k \in 1..Len(EventsOf(emitted, "message")) |->
                     EventsOf(emitted, "message")[k].payload])

ReceiptsIn(events) == EventsOf(events, "messageReceipt")
KnownId(id) ==
    \E convId \in DOMAIN messageHistory :
        \E i \in 1..Len(messageHistory[convId]) : messageHistory[convId][i].id = id

\* C32, as stated: a receipt is forwarded only for an id that a
\* conversation history holds.
C32_UnknownReceiptIsNoOp ==
    [][\A id \in ReceiptIds :
          (ReceiptsIn(emitted') # <<>> /\ ReceiptsIn(emitted')[1].payload.messageId = id)
              => KnownId(id)]_vars

\* The entries of the histories that a step has changed.
ChangedEntries ==
    {<<convId, i>> \in UNION {{<<c, j>> : j \in 1..Len(messageHistory[c])} :
                                 c \in DOMAIN messageHistory} :
        messageHistory'[convId][i] # messageHistory[convId][i]}

\* C32, amended: a receipt for an id that no history holds changes no stored
\* message; for an id a history holds, one message with that id gets the
\* type of the receipt as its status and nothing else in the histories
\* changes; known or not, the receipt is forwarded to the address it names
\* exactly when that address is online, and to nobody else.
C32_ReceiptForwardedWhenOnline ==
    [][\A s \in SocketIds, messageId \in ReceiptIds, to \in AddressInputs,
         type \in ReceiptTypes :
          MessageReceipt(s, messageId, to, type) =>
              /\ DOMAIN messageHistory' = DOMAIN messageHistory
              /\ \A convId \in DOMAIN messageHistory :
                     Len(messageHistory'[convId]) = Len(messageHistory[convId])
              /\ ~KnownId(messageId) =>
                     ChangedEntries = {} /\ offlineMessages' = offlineMessages
              /\ Cardinality(ChangedEntries) <= 1
              /\ \A e \in ChangedEntries :
                     LET old == messageHistory[e[1]][e[2]]
                         new == messageHistory'[e[1]][e[2]]
                     IN  /\ old.id = messageId
                         /\ new.status = type
                         /\ \A x \in DOMAIN old \ {"status"} : new[x] = old[x]
              /\ emitted' =
                     IF /\ ToLowerCase(to) \in DOMAIN users
                        /\ users[ToLowerCase(to)].online
                     THEN << [to |-> [kind |-> "socket",
                                      socket |-> users[ToLowerCase(to)].socketId],
                              event |-> "messageReceipt",
                              payload |-> [messageId |-> messageId, type |-> type,
                                           from |-> sockets[s].address]] >>
                     ELSE <<>>
              /\ UNCHANGED <<sockets, users, usernames>>]_vars

\* C32 witness: a receipt for an id that no history holds has been
\* forwarded, after a receipt had set the status of a stored message.
C32_Witness ==
    /\ ReceiptsIn(emitted) # <<>>
    /\ ReceiptsIn(emitted)[1].payload.messageId = <<"n","o">>
    /\ \E convId \in DOMAIN messageHistory :
           \E i \in 1..Len(messageHistory[convId]) :
               StatusOf(messageHistory[convId][i]) = "delivered"

----------------------------------------------------------------------------
(* Properties of the local store: bulk and single saves *)

\* The log that saveMessage leaves when called for each message in turn.
RECURSIVE SavedInTurn(_, _, _)
SavedInTurn(history, messages, now) ==
    IF messages = <<>> THEN history
    ELSE SavedInTurn(saveMessageResult(history, Head(messages), now),
                     Tail(messages), now)

\* C33: saveMessagesBulk leaves the log with the ids that saving its
\* messages one by one would leave, and each of them once, also when the
\* batch holds stored ids or one id twice.
C33_BulkAsSingles ==
    [][\A chatId \in ChatIds, messages \in BulkInputs(StoreMessages) :
          saveMessagesBulk(1, chatId, messages) =>
              LET inTurn == SavedInTurn(getItem(1, StorageKey(chatId)), messages, clock)
                  after == IF Has(store'[1], StorageKey(chatId))
                           THEN store'[1][StorageKey(chatId)] ELSE <<>>
              IN  /\ IdSet(after) = IdSet(inTurn)
                  /\ Len(after) = Cardinality(IdSet(after))]_vars

----------------------------------------------------------------------------
(* Properties of the decryption of own messages *)

----------------------------------------------------------------------------
(* Properties of the relay: buffers of online addresses *)

\* C39: in every reachable state of the relay an address marked online has
\* an empty offline buffer: sendMessage buffers only for an address that is
\* not online, and register deletes the buffer in the step that marks the
\* address online.
C39_OnlineHasNoBuffer ==
    \A address \in DOMAIN users :
        users[address].online => BufferOf(offlineMessages, address) = <<>>

\* A registration has just emitted a buffered message: the address is
\* online and its buffer is gone.
C39_Witness ==
    \E i \in 1..Len(emitted), j \in 1..Len(emitted) :
        /\ emitted[i].event = "message"
        /\ emitted[j].event = "registered"
        /\ Has(users, emitted[j].payload.address)
        /\ users[emitted[j].payload.address].online
        /\ emitted[i].payload.to = emitted[j].payload.address
        /\ BufferOf(offlineMessages, emitted[j].payload.address) = <<>>

----------------------------------------------------------------------------
(* Properties of the relay: the sender of a relayed message *)

WithoutFrom(messageData) ==
    [k \in DOMAIN messageData \ {"from"} |-> messageData[k]]

\* The message a sendMessage step stored, buffered and emitted.
Relayed(events) == SentIn(events)[1].payload

LastOf(seq) == seq[Len(seq)]

\* C40: a sendMessage step on socket s relays a message whose from is the
\* address registered on s and whose to is the lower-cased recipient,
\* whatever from the payload carried: the history entry it adds, the entry
\* it buffers and the message it forwards are that message, and the step is
\* also the step of every payload that differs only in its from.
C40_FromIsTheSocketAddress ==
    [][\A s \in SocketIds, m1 \in SenderInputs, g \in GeneratedIds :
          SendMessage(s, m1, g) =>
              LET msg == Relayed(emitted')
                  toAddress == ToLowerCase(m1.to)
              IN  /\ msg.from = sockets[s].address
                  /\ msg.to = toAddress
                  /\ \A i \in 1..Len(emitted') :
                         emitted'[i].event = "message" => emitted'[i].payload = msg
                  /\ \A convId \in DOMAIN messageHistory' :
                         (~Has(messageHistory, convId)
                              \/ messageHistory'[convId] # messageHistory[convId])
                             => LastOf(messageHistory'[convId]) = msg
                  /\ offlineMessages' # offlineMessages
                         => LastOf(offlineMessages'[toAddress]) = msg
                  /\ \A m2 \in SenderInputs :
                         WithoutFrom(m2) = WithoutFrom(m1) => SendMessage(s, m2, g)
      ]_vars

\* A payload whose from names another address than the socket's has been
\* relayed: once forwarded to the online recipient, once buffered.
C40_Forwarded ==
    /\ \E i \in 1..Len(emitted) :
           /\ emitted[i].event = "message"
           /\ emitted[i].payload.from = <<"a">>
           /\ emitted[i].payload.to = <<"b">>
    /\ \E convId \in DOMAIN messageHistory :
           \E i \in 1..Len(messageHistory[convId]) :
               messageHistory[convId][i].from = <<"a">>

C40_Witness ==
    /\ C40_Forwarded
    /\ sockets[1].state = "open"
    /\ sockets[1].address = <<"a">>

----------------------------------------------------------------------------
(* Properties of the relay: the order of message statuses *)

\* pending -> sent -> delivered -> read; a relayed message without a status
\* has been sent.
StatusRank(status) ==
    CASE status = "read" -> 3
      [] status = "delivered" -> 2
      [] OTHER -> 1

\* C38: the status of a message in the relay history never moves backwards:
\* an entry that a step keeps has afterwards a status at least as far along
\* pending -> sent -> delivered -> read as before, so a delivered receipt
\* after a read receipt leaves the status read.
C38_StatusNeverMovesBack ==
    [][\A convId \in DOMAIN messageHistory :
          convId \in DOMAIN messageHistory' =>
              \A i \in 1..Len(messageHistory[convId]) :
                  (/\ i <= Len(messageHistory'[convId])
                   /\ messageHistory'[convId][i].id = messageHistory[convId][i].id)
                      => StatusRank(StatusOf(messageHistory'[convId][i]))
                             >= StatusRank(StatusOf(messageHistory[convId][i]))
      ]_vars

----------------------------------------------------------------------------
(* Properties of the peer connections: replaced connections *)

\* The i-th SimplePeer object is no longer the one stored under its address.
Replaced(i) ==
    /\ Has(peers, instances[i].address)
    /\ peers[instances[i].address] # i

\* C36: a close or an error of a SimplePeer object that a newer connection
\* to the same address has replaced removes no peer entry and changes no
\* connection state; and after every step an address whose state is
\* 'connected' has a peer entry whose peer is connected and not destroyed.
C36_StaleCloseIsIgnored ==
    [][/\ \A i \in 1..Len(instances) :
              (Replaced(i) /\ peerCloses(i)) => UNCHANGED <<peers, connectionStates>>
       /\ \A peerAddress \in Recipients :
              PeerState(connectionStates', peerAddress) = "connected"
                  => /\ Has(peers', peerAddress)
                     /\ instances'[peers'[peerAddress]].connected
                     /\ ~instances'[peers'[peerAddress]].destroyed
      ]_vars

----------------------------------------------------------------------------
(* Properties of the outbox: overlapping flushes *)

\* The relay's sendMessage handler takes the first event off the socket.
RelayTakes ==
    /\ wire # <<>>
    /\ wire' = Tail(wire)
    /\ accepted' = accepted \cup {Head(wire).id}
    /\ connected' = connected

\* C37: flushPendingMessages calls that overlap hand each outbox entry to
\* the relay at most once in total: the relay never receives a sendMessage
\* event for an id it has already received, and no id is on the socket
\* twice.
C37_EntryHandedOverOnce ==
    [][/\ RelayTakes => Head(wire).id \notin accepted
       /\ \A i \in 1..Len(wire'), j \in 1..Len(wire') :
              wire'[i].id = wire'[j].id => i = j
      ]_vars

----------------------------------------------------------------------------
(* Properties of the start of the application *)

\* C35: every message the relay emits to the client at registration reaches
\* the client's message callback: no register request is sent before the
\* message subscription is installed, and no message that arrives on the
\* socket is dropped for want of a callback.
C35_FlushedMessagesReachTheCallback ==
    /\ startup.requests > 0 => startup.messageCallback
    /\ startup.arriving # <<>> => startup.messageCallback
    /\ startup.dropped = <<>>

====
